---------------------------- MODULE Spec2Model ----------------------------
(***************************************************************************)
(* Model of the analytics engine of f28analytics (computeDataset and its   *)
(* helpers, src/unnamed/part_007).                                         *)
(*                                                                         *)
(* Numbers.  JavaScript numbers are modelled by                            *)
(*   - integers for the raw member stats (baseStats, level, exp, ...);     *)
(*   - exact rationals Q = [n, d] (d > 0, reduced) for everything the code *)
(*     derives by +, -, *, / from them (perDay, averages, percentiles,     *)
(*     ratios), so that an equality of two results is a real equality;     *)
(*   - fixed point numbers (integers counting 1/SCALE) for the scores and  *)
(*     their factors, where the code calls Math.log / Math.exp.            *)
(* Dates are integers counting ticks of 1/TicksPerDay day; the month key   *)
(* of a date is date \div TicksPerMonth.  Experience is counted in units   *)
(* of 10^6 (EXP_PER_LEVEL_HIGH = 1500 stands for 1_500_000_000) and        *)
(* baseStats in units of 10^5 (GROWTH_BASELINE = 10 stands for 1_000_000). *)
(*                                                                         *)
(* A JavaScript array is a sequence, a Map the sequence of its entries in  *)
(* insertion order or a function on its keys, null the empty sequence and  *)
(* a value that may be null a sequence of length at most one.              *)
(***************************************************************************)
EXTENDS Integers, Sequences, FiniteSets, TLC

VARIABLES pc, input, result,
          \* the scan worker (src/unnamed/part_014)
          repoCache, locals, posted, fetched, received,
          \* the data store (src/unnamed/part_009)
          store, workers, workerRef, timers, userLoads, autoLoads, applied

workerVars == <<repoCache, locals, posted, fetched, received>>
storeVars == <<store, workers, workerRef, timers, userLoads, autoLoads, applied>>
vars == <<pc, input, result, repoCache, locals, posted, fetched, received, store, workers, workerRef, timers, userLoads, autoLoads, applied>>

\* no worker has been created and the store is not mounted: the state of
\* the worker and of the store in the specifications of the engine
NoWorker ==
  /\ repoCache = <<>>
  /\ locals = <<>>
  /\ posted = <<>>
  /\ fetched = <<>>
  /\ received = 0
NoStore ==
  /\ store = <<>>
  /\ workers = <<>>
  /\ workerRef = 0
  /\ timers = <<>>
  /\ userLoads = 0
  /\ autoLoads = 0
  /\ applied = <<0, 0>>

(***************************************************************************)
(* Bounds of the model                                                     *)
(***************************************************************************)
TicksPerDay == 2
DaysPerMonth == 3
MaxPctN == 4
MaxPctValue == 2
MaxMonths == 14
MaxExpPoints == 3
MaxSnaps == 3
MaxRankExtra == 2
SCALE == 1000

TicksPerMonth == TicksPerDay * DaysPerMonth

(***************************************************************************)
(* Program constants                                                       *)
(***************************************************************************)
EXP_LEVEL_THRESHOLD == 393
EXP_PER_LEVEL_HIGH == 1500
MAIN_LIMIT == 50
WING_LIMIT == 100
GROWTH_BASELINE == 10
GROWTH_MIN_GUILD_COUNT == 2
SERVER_AVG_TOP_LIMIT == 150
TOP_AVERAGE_LIMIT == 100
TOP_PERCENTILE_LIMIT == 500
CONSISTENCY_GAP_K == 3
CONSISTENCY_MAD_K == 6
MINE_CAP == 100
TREASURY_CAP == 45
LEVEL_PER_30_TARGET == 3
LEVEL_PENALTY_MAX == 15

WINDOW_KEYS == <<1, 3, 6, 12>>
DEFAULT_SCORE_WINDOW == 3
METRIC_KEYS == <<"baseStats", "level", "mine", "treasury">>

(***************************************************************************)
(* Sequences and functions                                                 *)
(***************************************************************************)
Range(s) == {s[i] : i \in DOMAIN s}

\* the sequence s with its elements computed, the function f with its
\* values computed
Array(s) == s \o <<>>
Table(f) == f @@ <<>>

RECURSIVE SumSeq(_)
SumSeq(s) == IF s = <<>> THEN 0 ELSE Head(s) + SumSeq(Tail(s))

Max(a, b) == IF a > b THEN a ELSE b
Min(a, b) == IF a < b THEN a ELSE b

RECURSIVE ConcatAll(_)
ConcatAll(ss) == IF ss = <<>> THEN <<>> ELSE Head(ss) \o ConcatAll(Tail(ss))

\* Array.prototype.slice(from, to), 0-based, to exclusive
Slice(s, from, to) == SubSeq(s, from + 1, Min(to, Len(s)))

\* the distinct elements of s in order of first appearance: the key order
\* of a Map filled by iterating s
RECURSIVE FirstSeen(_, _, _)
FirstSeen(s, i, acc) ==
  IF i > Len(s) THEN acc
  ELSE IF \E j \in DOMAIN acc : acc[j] = s[i] THEN FirstSeen(s, i + 1, acc)
  ELSE FirstSeen(s, i + 1, Append(acc, s[i]))

KeyOrder(s) == FirstSeen(Array(s), 1, <<>>)

\* a Map as a function: get(key) ?? default
GetOr(map, key, default) == IF key \in DOMAIN map THEN map[key] ELSE default

(***************************************************************************)
(* Rationals                                                               *)
(***************************************************************************)
Abs(x) == IF x < 0 THEN -x ELSE x

RECURSIVE GCD(_, _)
GCD(a, b) == IF b = 0 THEN a ELSE GCD(b, a % b)

Reduced(n, d, g) == [n |-> n \div g, d |-> d \div g]

\* n / d for d # 0
Q(n, d) == Reduced(IF d < 0 THEN -n ELSE n, Abs(d), GCD(Abs(n), Abs(d)))

QInt(k) == [n |-> k, d |-> 1]
QZero == QInt(0)
QOne == QInt(1)
QAdd(a, b) == Q(a.n * b.d + b.n * a.d, a.d * b.d)
QSub(a, b) == Q(a.n * b.d - b.n * a.d, a.d * b.d)
QMul(a, b) == Q(a.n * b.n, a.d * b.d)
\* only used with b # 0
QDiv(a, b) == Q(a.n * b.d, a.d * b.n)
QLt(a, b) == a.n * b.d < b.n * a.d
QLe(a, b) == a.n * b.d <= b.n * a.d
QAbs(a) == [n |-> Abs(a.n), d |-> a.d]
QNeg(a) == [n |-> -a.n, d |-> a.d]
QIn01(a) == a.n >= 0 /\ a.n <= a.d

RECURSIVE QSum(_)
QSum(s) == IF s = <<>> THEN QZero ELSE QAdd(Head(s), QSum(Tail(s)))

(***************************************************************************)
(* Array.prototype.sort with a comparator (a, b) => key(a) - key(b): a     *)
(* stable ascending sort.  The elements are records with the sort key in   *)
(* field sk (a rational); a descending sort negates the key.               *)
(***************************************************************************)
\* the position of s[i] after the sort: behind the elements with a smaller
\* key and the earlier elements with the same key
SortPosition(s, i) ==
  1 + Cardinality({j \in DOMAIN s : \/ QLt(s[j].sk, s[i].sk)
                                    \/ j < i /\ ~QLt(s[i].sk, s[j].sk)})

Permuted(s, position) ==
  Array([p \in DOMAIN s |-> s[CHOOSE i \in DOMAIN s : position[i] = p]])

StableSort(s) == Permuted(s, Array([i \in DOMAIN s |-> SortPosition(s, i)]))

Unkeyed(sorted) == Array([i \in DOMAIN sorted |-> sorted[i].v])

\* s sorted (stable, ascending) by the rational keys: keys[i] is the key
\* of s[i]
SortBy(s, keys) ==
  Unkeyed(StableSort(Array([i \in DOMAIN s |-> [sk |-> keys[i], v |-> s[i]]])))

\* descending by the keys, stable
SortDescBy(s, keys) == SortBy(s, Array([i \in DOMAIN keys |-> QNeg(keys[i])]))

\* list.map((x) => x.field), and the same as rationals
Column(list, field) == Array([i \in DOMAIN list |-> list[i][field]])
QColumn(list, field) == Array([i \in DOMAIN list |-> QInt(list[i][field])])

\* sort((a, b) => a.field - b.field) and sort((a, b) => b.field - a.field)
SortByField(list, field) == SortBy(list, QColumn(list, field))
SortDescByField(list, field) == SortDescBy(list, QColumn(list, field))

\* sort((a, b) => a - b)
SortValues(values) == SortBy(values, values)

(***************************************************************************)
(* Statistics helpers                                                      *)
(***************************************************************************)
\* Math.round: to the nearest integer, halves up
RoundDiv(a, b) == (2 * a + b) \div (2 * b)

diffDays_floor(start, end) == Max(1, (end - start) \div TicksPerDay)

diffDays(start, end) == Max(1, RoundDiv(end - start, TicksPerDay))

average(values) ==
  IF Len(values) > 0 THEN QDiv(QSum(values), QInt(Len(values))) ELSE QZero

medianOfSorted(sorted) ==
  IF Len(sorted) % 2 = 0
  THEN QDiv(QAdd(sorted[Len(sorted) \div 2], sorted[Len(sorted) \div 2 + 1]), QInt(2))
  ELSE sorted[Len(sorted) \div 2 + 1]

median(values) ==
  IF Len(values) = 0 THEN QZero
  ELSE medianOfSorted(SortValues(values))

clamp_identity(value, min, max) == value

clamp(value, min, max) == Min(max, Max(min, value))

weightedDelta(totalDays, totalDelta) ==
  IF totalDays > 0 THEN QDiv(totalDelta, QInt(totalDays)) ELSE QZero

weightedPerDay_meanOfPerDay(intervals) ==
  IF Len(intervals) = 0 THEN QZero
  ELSE QDiv(QSum([i \in DOMAIN intervals |-> intervals[i].perDay]), QInt(Len(intervals)))

weightedPerDay(intervals) ==
  weightedDelta(SumSeq([i \in DOMAIN intervals |-> intervals[i].days]),
                QSum([i \in DOMAIN intervals |-> intervals[i].delta]))

(***************************************************************************)
(* Percentile engine                                                       *)
(***************************************************************************)
\* one group of equal values starting at index (0-based): its end
RECURSIVE RunEnd(_, _, _)
RunEnd(entries, value, end) ==
  IF end < Len(entries) /\ entries[end + 1].value = value
  THEN RunEnd(entries, value, end + 1)
  ELSE end

averageRank_first(index, end) == QInt(index)

\* rank = (index + (end - 1)) / 2
averageRank(index, end) == Q(index + (end - 1), 2)

percentileOfRank_oneBased(rank, length) ==
  IF length = 1 THEN QOne ELSE QDiv(QAdd(rank, QOne), QInt(length - 1))

\* percentile = entries.length === 1 ? 1 : rank / (entries.length - 1)
percentileOfRank(rank, length) ==
  IF length = 1 THEN QOne ELSE QDiv(rank, QInt(length - 1))

\* the while loop of computePercentiles; PercentileGroup is its body for
\* the group entries[index .. end - 1]
RECURSIVE PercentileLoop(_, _, _)
PercentileGroup(entries, index, end, map) ==
  PercentileLoop(entries, end,
    [k \in {entries[c].key : c \in (index + 1)..end} |->
       percentileOfRank(averageRank(index, end), Len(entries))] @@ map)

PercentileLoop(entries, index, map) ==
  IF index >= Len(entries) THEN map
  ELSE PercentileGroup(entries, index,
                       RunEnd(entries, entries[index + 1].value, index), map)

\* values: the Map as the sequence of its entries [key, value] in insertion
\* order (keys distinct); the result is the percentile Map as a function.
computePercentiles(values) ==
  PercentileLoop(
    StableSort(Array([i \in DOMAIN values |->
                        [key |-> values[i].key, value |-> values[i].value,
                         sk |-> values[i].value]])),
    0, <<>>)

\* the binary search of percentileFromSorted: the last index whose element
\* is <= value, or -1
RECURSIVE BinarySearch(_, _, _, _, _)
BinarySearch(sorted, value, low, high, index) ==
  IF low > high THEN index
  ELSE IF QLe(sorted[(low + high) \div 2 + 1], value)
  THEN BinarySearch(sorted, value, (low + high) \div 2 + 1, high, (low + high) \div 2)
  ELSE BinarySearch(sorted, value, low, (low + high) \div 2 - 1, index)

percentileAtIndex(index, length) ==
  IF index < 0 THEN QZero ELSE Q(index, length - 1)

percentileFromSorted(sorted, value) ==
  IF Len(sorted) = 0 THEN QZero
  ELSE IF Len(sorted) = 1 THEN QOne
  ELSE percentileAtIndex(BinarySearch(sorted, value, 0, Len(sorted) - 1, -1), Len(sorted))

(***************************************************************************)
(* Experience totals                                                       *)
(***************************************************************************)
resolveExpPerLevel(level, expNext) ==
  IF expNext > 0 THEN expNext
  ELSE IF level >= EXP_LEVEL_THRESHOLD THEN EXP_PER_LEVEL_HIGH ELSE 0

\* a || b || c on numbers: the first that is not 0
FirstNonZero(a, b, c) == IF a # 0 THEN a ELSE IF b # 0 THEN b ELSE c

computeExpDelta_noResetGuard(prev, curr) ==
  LET prevPerLevel == resolveExpPerLevel(prev.level, prev.expNext)
      currPerLevel == resolveExpPerLevel(curr.level, curr.expNext)
      levelsGained == curr.level - prev.level
      fallbackPerLevel == FirstNonZero(prevPerLevel, currPerLevel, EXP_PER_LEVEL_HIGH)
  IN IF curr.level <= prev.level THEN curr.exp - prev.exp
     ELSE IF prev.level < EXP_LEVEL_THRESHOLD /\ curr.level >= EXP_LEVEL_THRESHOLD
     THEN LET levelsBelow == Max(0, EXP_LEVEL_THRESHOLD - prev.level)
              levelsAbove == curr.level - Max(prev.level, EXP_LEVEL_THRESHOLD)
          IN Max(0, fallbackPerLevel - prev.exp)
             + (IF levelsBelow > 1 THEN (levelsBelow - 1) * fallbackPerLevel ELSE 0)
             + (IF levelsAbove > 0 THEN levelsAbove * EXP_PER_LEVEL_HIGH ELSE 0)
             + Max(0, curr.exp)
     ELSE LET perLevel == IF prev.level >= EXP_LEVEL_THRESHOLD
                          THEN EXP_PER_LEVEL_HIGH ELSE fallbackPerLevel
          IN Max(0, perLevel - prev.exp)
             + (IF levelsGained > 1 THEN (levelsGained - 1) * perLevel ELSE 0)
             + Max(0, curr.exp)

computeExpDelta(prev, curr) ==
  LET prevPerLevel == resolveExpPerLevel(prev.level, prev.expNext)
      currPerLevel == resolveExpPerLevel(curr.level, curr.expNext)
      levelsGained == curr.level - prev.level
      fallbackPerLevel == FirstNonZero(prevPerLevel, currPerLevel, EXP_PER_LEVEL_HIGH)
  IN IF curr.level <= prev.level THEN Max(0, curr.exp - prev.exp)
     ELSE IF prev.level < EXP_LEVEL_THRESHOLD /\ curr.level >= EXP_LEVEL_THRESHOLD
     THEN LET levelsBelow == Max(0, EXP_LEVEL_THRESHOLD - prev.level)
              levelsAbove == curr.level - Max(prev.level, EXP_LEVEL_THRESHOLD)
          IN Max(0, fallbackPerLevel - prev.exp)
             + (IF levelsBelow > 1 THEN (levelsBelow - 1) * fallbackPerLevel ELSE 0)
             + (IF levelsAbove > 0 THEN levelsAbove * EXP_PER_LEVEL_HIGH ELSE 0)
             + Max(0, curr.exp)
     ELSE LET perLevel == IF prev.level >= EXP_LEVEL_THRESHOLD
                          THEN EXP_PER_LEVEL_HIGH ELSE fallbackPerLevel
          IN Max(0, perLevel - prev.exp)
             + (IF levelsGained > 1 THEN (levelsGained - 1) * perLevel ELSE 0)
             + Max(0, curr.exp)

\* the running total after points[1..index]
RECURSIVE ExpTotalAt(_, _)
ExpTotalAt(points, index) ==
  IF index = 1 THEN Max(0, points[1].exp)
  ELSE ExpTotalAt(points, index - 1) + computeExpDelta(points[index - 1], points[index])

applyExpTotals(points) ==
  Array([i \in DOMAIN points |-> [points[i] EXCEPT !.expTotal = ExpTotalAt(points, i)]])

(***************************************************************************)
(* Intervals                                                               *)
(***************************************************************************)
IntervalRecord(start, end, days, delta) ==
  [startDate |-> start.date, endDate |-> end.date, days |-> days,
   delta |-> delta, perDay |-> QDiv(delta, QInt(days))]

\* the body of the loop of buildIntervals / buildGuildIntervals /
\* buildGuildMetricIntervals, and buildWindowMetric, for the selected
\* values (rationals) of start and end
IntervalLike(start, end, startValue, endValue) ==
  IntervalRecord(start, end, diffDays(start.date, end.date), QSub(endValue, startValue))

\* the selector (point) => point.<metric>
Sel(metric, point) == QInt(point[metric])

\* buildIntervals(points, (point) => point.<metric>)
buildIntervals(points, metric) ==
  Array([index \in 1..(Len(points) - 1) |->
           IntervalLike(points[index], points[index + 1],
                        Sel(metric, points[index]), Sel(metric, points[index + 1]))])

\* buildWindowMetric(start, end, (point) => point.<metric>)
buildWindowMetric(start, end, metric) ==
  IntervalLike(start, end, Sel(metric, start), Sel(metric, end))

(***************************************************************************)
(* Window resolver                                                         *)
(***************************************************************************)
\* '' as a date
NoDate == -1

\* getMonthKey: the 'YYYY-MM' prefix of the date
getMonthKey(date) == date \div TicksPerMonth

\* the months of buildMonthBuckets: the month keys in order of first
\* appearance
RECURSIVE BucketMonths(_, _, _)
BucketMonths(dates, i, months) ==
  IF i > Len(dates) THEN months
  ELSE IF \E m \in DOMAIN months : months[m] = getMonthKey(dates[i])
  THEN BucketMonths(dates, i + 1, months)
  ELSE BucketMonths(dates, i + 1, Append(months, getMonthKey(dates[i])))

\* monthMap[key]: the positions (1-based, ascending) of the items of month
\* key
MonthBuckets(dates, months) ==
  [months |-> months,
   monthMap |-> Table([key \in Range(months) |->
                         SelectSeq(Array([i \in DOMAIN dates |-> i]),
                                   LAMBDA i : getMonthKey(dates[i]) = key)])]

buildMonthBuckets(dates) == MonthBuckets(dates, BucketMonths(dates, 1, <<>>))

\* indices are 0-based as in the code; -1 when there is no month
resolveWindowRange_fromLast(monthKeys, windowMonths) ==
  IF Len(monthKeys) = 0 THEN [startIndex |-> -1, endIndex |-> -1]
  ELSE [startIndex |-> Max(0, (Len(monthKeys) - 1) - (Max(1, windowMonths) - 1)),
        endIndex |-> Len(monthKeys) - 1]

resolveWindowRange(monthKeys, windowMonths) ==
  IF Len(monthKeys) = 0 THEN [startIndex |-> -1, endIndex |-> -1]
  ELSE LET endIndex == IF Len(monthKeys) > 1 THEN Len(monthKeys) - 2 ELSE 0
       IN [startIndex |-> Max(0, endIndex - (Max(1, windowMonths) - 1)),
           endIndex |-> endIndex]

\* start = startItems[0]; end = the last item of the end month if it has
\* several, else the first item of the next month, else the end month's item
WindowEnds(startItems, endItems, nextItems) ==
  [start |-> startItems[1],
   end |-> IF Len(endItems) > 1 THEN endItems[Len(endItems)]
           ELSE IF Len(nextItems) > 0 THEN nextItems[1]
           ELSE endItems[Len(endItems)]]

WindowItemsOfRange(buckets, range) ==
  IF range.startIndex < 0 \/ range.endIndex < 0 THEN [start |-> 0, end |-> 0]
  ELSE WindowEnds(buckets.monthMap[buckets.months[range.startIndex + 1]],
                  buckets.monthMap[buckets.months[range.endIndex + 1]],
                  IF range.endIndex + 2 <= Len(buckets.months)
                  THEN buckets.monthMap[buckets.months[range.endIndex + 2]]
                  ELSE <<>>)

\* The positions of the start and the end item of the window, 0 for null,
\* from the month buckets of the items' dates.  Shared by
\* resolveWindowPoints (items are points) and resolveWindowMeta (items are
\* dates), whose bodies are the same up to the item type.
WindowItems(buckets, months) ==
  WindowItemsOfRange(buckets, resolveWindowRange(buckets.months, months))

resolveWindowItems(dates, months) ==
  IF Len(dates) = 0 THEN [start |-> 0, end |-> 0]
  ELSE WindowItems(buildMonthBuckets(dates), months)

isWithinWindow(date, windowMeta) ==
  /\ ~(windowMeta.startDate # NoDate /\ date < windowMeta.startDate)
  /\ ~(windowMeta.endDate # NoDate /\ date > windowMeta.endDate)

WindowMetaOfRange(dates, meta) ==
  [startDate |-> meta.startDate,
   endDate |-> meta.endDate,
   possibleIntervals |->
     Max(0, Len(SelectSeq(dates, LAMBDA d : isWithinWindow(d, meta))) - 1)]

WindowMetaOfItems(dates, w) ==
  IF w.start = 0
  THEN [startDate |-> NoDate, endDate |-> NoDate, possibleIntervals |-> 0]
  ELSE WindowMetaOfRange(dates, [startDate |-> dates[w.start], endDate |-> dates[w.end]])

resolveWindowMeta(dates, months) ==
  WindowMetaOfItems(dates, resolveWindowItems(dates, months))

buildWindowMeta(dates) ==
  Table([key \in Range(WINDOW_KEYS) |-> resolveWindowMeta(dates, key)])

(***************************************************************************)
(* computeDataset: snapshot index, roster, series                          *)
(*                                                                         *)
(* A snapshot is [scannedAt, guilds], a guild [guildKey, members], a       *)
(* member [playerKey, server, baseStats, level, exp, expNext, mine,        *)
(* treasury].                                                              *)
(***************************************************************************)
pairSnapshots_afterSort(normalizedSnapshots, manifestSnapshots) ==
  Array([index \in DOMAIN normalizedSnapshots |->
           [scannedAt |-> SortByField(Array(normalizedSnapshots), "scannedAt")[index].scannedAt,
            guilds |-> SortByField(Array(normalizedSnapshots), "scannedAt")[index].guilds,
            meta |-> IF index \in DOMAIN manifestSnapshots
                     THEN <<manifestSnapshots[index]>> ELSE <<>>]])

\* normalizedSnapshots.map((snapshot, index) => ({snapshot, meta})): each
\* snapshot with the manifest entry of its index, if there is one
pairSnapshots(normalizedSnapshots, manifestSnapshots) ==
  Array([index \in DOMAIN normalizedSnapshots |->
           [scannedAt |-> normalizedSnapshots[index].scannedAt,
            guilds |-> normalizedSnapshots[index].guilds,
            meta |-> IF index \in DOMAIN manifestSnapshots
                     THEN <<manifestSnapshots[index]>> ELSE <<>>]])

\* snapshots.sort by scannedAt
sortSnapshots(snapshots) == SortByField(Array(snapshots), "scannedAt")

\* every (guild, member) of the snapshot in iteration order, as
\* SnapshotPlayerStats
snapshotStats(snapshot) ==
  ConcatAll(Array([g \in DOMAIN snapshot.guilds |->
    Array([k \in DOMAIN snapshot.guilds[g].members |->
       [playerKey |-> snapshot.guilds[g].members[k].playerKey,
        server |-> snapshot.guilds[g].members[k].server,
        baseStats |-> snapshot.guilds[g].members[k].baseStats,
        level |-> snapshot.guilds[g].members[k].level,
        exp |-> snapshot.guilds[g].members[k].exp,
        expNext |-> snapshot.guilds[g].members[k].expNext,
        mine |-> snapshot.guilds[g].members[k].mine,
        treasury |-> snapshot.guilds[g].members[k].treasury,
        guildKey |-> snapshot.guilds[g].guildKey]])]))

\* playersByKey as the list of its values: the first occurrence of a
\* player key wins
playersByKey(members) ==
  SelectSeq(members,
            LAMBDA st : st = members[CHOOSE i \in DOMAIN members :
                                       /\ members[i].playerKey = st.playerKey
                                       /\ \A j \in 1..(i - 1) :
                                            members[j].playerKey # st.playerKey])

\* one element of indexedSnapshots; members keeps every occurrence of a
\* member, in the order of guildMembersAtScan's lists
IndexedSnapshot(snapshot, members) ==
  [scannedAt |-> snapshot.scannedAt,
   meta |-> snapshot.meta,
   members |-> members,
   playersByKey |-> playersByKey(members),
   guildKeys |-> KeyOrder([g \in DOMAIN snapshot.guilds |-> snapshot.guilds[g].guildKey])]

IndexAll(sorted) ==
  Array([i \in DOMAIN sorted |-> IndexedSnapshot(sorted[i], snapshotStats(sorted[i]))])

indexedSnapshots(snapshots) == IndexAll(sortSnapshots(snapshots))

\* guildMembersAtScan.get(guildKey): the member keys, every occurrence kept
guildMembersAtScan(index, guildKey) ==
  ConcatAll(Array([i \in DOMAIN index.members |->
    IF index.members[i].guildKey = guildKey
    THEN <<index.members[i].playerKey>> ELSE <<>>]))

rosterGuildKeys_unchecked(indexed, guildFilterKeys) ==
  IF Len(indexed) = 0 THEN <<>>
  ELSE IF Len(guildFilterKeys) > 0 THEN guildFilterKeys
  ELSE indexed[Len(indexed)].guildKeys

\* the filter keys found in the latest snapshot, or all guild keys of the
\* latest snapshot
rosterGuildKeys(indexed, guildFilterKeys) ==
  IF Len(indexed) = 0 THEN <<>>
  ELSE IF Len(guildFilterKeys) > 0
  THEN SelectSeq(guildFilterKeys,
                 LAMBDA key : key \in Range(indexed[Len(indexed)].guildKeys))
  ELSE indexed[Len(indexed)].guildKeys

rosterKeysOf_anySnapshot(indexed, guildKeys) ==
  ConcatAll(Array([sn \in DOMAIN indexed |->
    ConcatAll(Array([g \in DOMAIN guildKeys |->
                       guildMembersAtScan(indexed[sn], guildKeys[g])]))]))

\* the member keys of the roster guilds, guild by guild, as the
\* latest snapshot lists them
rosterKeysOf(indexed, guildKeys) ==
  ConcatAll(Array([g \in DOMAIN guildKeys |->
                     guildMembersAtScan(indexed[Len(indexed)], guildKeys[g])]))

\* playersByKey.get(playerKey), as a list of at most one element
StatsOf(index, playerKey) ==
  SelectSeq(index.playersByKey, LAMBDA st : st.playerKey = playerKey)

SeriesPush(index, stats) ==
  [playerKey |-> stats.playerKey,
   server |-> stats.server,
   point |-> [date |-> index.scannedAt, baseStats |-> stats.baseStats,
              level |-> stats.level, exp |-> stats.exp, expNext |-> stats.expNext,
              expTotal |-> 0, mine |-> stats.mine, treasury |-> stats.treasury,
              guildKey |-> stats.guildKey]]

PushAll(index, stats) == Array([i \in DOMAIN stats |-> SeriesPush(index, stats[i])])

\* the stats of the roster members the snapshot knows, in roster order
rosterStats(index, rosterKeys) ==
  ConcatAll(Array([k \in DOMAIN rosterKeys |-> StatsOf(index, rosterKeys[k])]))

\* The pushes into playerMap in iteration order: per snapshot, per roster
\* guild key, per roster member key (of the latest snapshot) that the
\* snapshot knows.
rosterPushes(indexed, rosterKeys) ==
  ConcatAll(Array([sn \in DOMAIN indexed |->
                     PushAll(indexed[sn], rosterStats(indexed[sn], rosterKeys))]))

\* the pushes of playersByKey.forEach into globalPlayerMap
globalPushes(indexed) ==
  ConcatAll(Array([sn \in DOMAIN indexed |->
                     PushAll(indexed[sn], indexed[sn].playersByKey)]))

SeriesOfKey(playerKey, own) ==
  [playerKey |-> playerKey,
   server |-> own[Len(own)].server,
   points |-> Array([i \in DOMAIN own |-> own[i].point])]

SeriesOfKeys(pushes, keys) ==
  Array([k \in DOMAIN keys |->
           SeriesOfKey(keys[k], SelectSeq(pushes, LAMBDA e : e.playerKey = keys[k]))])

\* playerMap / globalPlayerMap as the list of its values
seriesOf(pushes) ==
  SeriesOfKeys(pushes, KeyOrder([i \in DOMAIN pushes |-> pushes[i].playerKey]))

sortPoints(points) == SortByField(points, "date")

\* the window metric of the points at the resolved positions, or null
windowMetricAt(points, ends, metric) ==
  IF ends.start = 0 \/ ends.end = 0 THEN <<>>
  ELSE <<buildWindowMetric(points[ends.start], points[ends.end], metric)>>

\* resolveWindowPoints of every window
WindowEndsByKey(buckets) ==
  Table([w \in Range(WINDOW_KEYS) |-> WindowItems(buckets, w)])

windowMetricsAt(points, endsByKey) ==
  Table([metric \in Range(METRIC_KEYS) |->
    Table([w \in Range(WINDOW_KEYS) |-> windowMetricAt(points, endsByKey[w], metric)])])

\* buildWindowMetricsForPoints, and the same loop in computeDataset
buildWindowMetricsForPoints(points) ==
  windowMetricsAt(points,
    WindowEndsByKey(buildMonthBuckets(Array([i \in DOMAIN points |-> points[i].date]))))

PlayerOfIntervals(series, points, intervals) ==
  [playerKey |-> series.playerKey,
   server |-> series.server,
   latestGuildKey |-> points[Len(points)].guildKey,
   points |-> points,
   intervals |-> intervals,
   perDayYear |-> Table([metric \in Range(METRIC_KEYS) |->
                           weightedPerDay(intervals[metric])]),
   windowMetrics |-> buildWindowMetricsForPoints(points)]

PlayerOfPoints(series, points) ==
  PlayerOfIntervals(series, points,
    Table([metric \in Range(METRIC_KEYS) |-> buildIntervals(points, metric)]))

\* the body of Array.from(playerMap.values()).forEach
playerComputed(series) ==
  PlayerOfPoints(series, applyExpTotals(sortPoints(series.points)))

playersComputed(seriesList) ==
  Array([i \in DOMAIN seriesList |-> playerComputed(seriesList[i])])

GuildPointOf(index, stats) ==
  [date |-> index.scannedAt,
   memberCount |-> Len(stats)]
    @@ Table([metric \in Range(METRIC_KEYS) |-> median(QColumn(stats, metric))])

\* the guild point of one snapshot: the medians of the roster members the
\* snapshot knows
guildPoint(index, rosterKeys) == GuildPointOf(index, rosterStats(index, rosterKeys))

\* buildGuildMetricIntervals(points, (point) => point.<metric>Median)
buildGuildMetricIntervals(points, metric) ==
  Array([index \in 1..(Len(points) - 1) |->
           IntervalLike(points[index], points[index + 1],
                        points[index][metric], points[index + 1][metric])])

\* the intervals of the baseStats medians
buildGuildIntervals(points) ==
  Array([index \in 1..(Len(points) - 1) |->
           IntervalLike(points[index], points[index + 1],
                        points[index].baseStats, points[index + 1].baseStats)])

GuildOfPoints(guildKey, points) ==
  [guildKey |-> guildKey,
   points |-> points,
   intervals |-> buildGuildIntervals(points),
   intervalsByMetric |->
     [baseStats |-> buildGuildIntervals(points),
      level |-> buildGuildMetricIntervals(points, "level"),
      mine |-> buildGuildMetricIntervals(points, "mine"),
      treasury |-> buildGuildMetricIntervals(points, "treasury")]]

\* the body of Array.from(guildMap.values()).forEach
guildComputed(guildKey, points) == GuildOfPoints(guildKey, sortPoints(points))

\* guildMap's points of one guild key: per snapshot one point per
\* occurrence of the key among the roster guild keys
guildPoints(indexed, guildKeys, guildKey) ==
  ConcatAll(Array([sn \in DOMAIN indexed |->
    ConcatAll(Array([g \in DOMAIN guildKeys |->
      IF guildKeys[g] = guildKey
      THEN <<guildPoint(indexed[sn], guildMembersAtScan(indexed[Len(indexed)], guildKey))>>
      ELSE <<>>]))]))

GuildsOfKeys(indexed, guildKeys, keys) ==
  Array([g \in DOMAIN keys |->
           guildComputed(keys[g], guildPoints(indexed, guildKeys, keys[g]))])

guildsComputed(indexed, guildKeys) == GuildsOfKeys(indexed, guildKeys, KeyOrder(guildKeys))

PercentileEntries(players, metric) ==
  Array([i \in DOMAIN players |->
           [key |-> players[i].playerKey, value |-> players[i].perDayYear[metric]]])

PercentilesOfPlayer(playerKey, maps) ==
  [baseStats |-> maps.baseStats[playerKey], level |-> maps.level[playerKey],
   mine |-> maps.mine[playerKey], treasury |-> maps.treasury[playerKey],
   resource |-> QDiv(QAdd(maps.mine[playerKey], maps.treasury[playerKey]), QInt(2))]

WithPercentileMaps(players, maps) ==
  Array([i \in DOMAIN players |->
           players[i] @@ [percentiles |-> PercentilesOfPlayer(players[i].playerKey, maps)]])

\* player.percentiles of every player of the list
withPercentiles(players) ==
  WithPercentileMaps(players,
    Table([metric \in Range(METRIC_KEYS) |->
             computePercentiles(PercentileEntries(players, metric))]))

(***************************************************************************)
(* computeDataset: growth inputs and server baselines                      *)
(***************************************************************************)
\* undefined as a guild key
NoKey == ""

intervalsWithin(intervals, windowMeta) ==
  SelectSeq(intervals, LAMBDA iv : /\ isWithinWindow(iv.startDate, windowMeta)
                                   /\ isWithinWindow(iv.endDate, windowMeta))

GrowthInputsRecord(baseStart, baseEnd, realGuildKey, windowDays, clampedDelta, absPerDay) ==
  [windowDays |-> windowDays, windowDelta |-> clampedDelta,
   baseStart |-> baseStart, baseEnd |-> baseEnd,
   absPerDay |-> absPerDay,
   relPerDay |-> IF QLt(QZero, absPerDay)
                 THEN QDiv(absPerDay, QInt(Max(baseStart, GROWTH_BASELINE)))
                 ELSE QZero,
   realGuildKey |-> realGuildKey]

GrowthInputsOfDelta(baseStart, baseEnd, realGuildKey, windowDays, clampedDelta) ==
  GrowthInputsRecord(baseStart, baseEnd, realGuildKey, windowDays, clampedDelta,
    IF windowDays > 0 THEN QDiv(clampedDelta, QInt(windowDays)) ELSE QZero)

GrowthInputsOfWindowDelta(baseStart, baseEnd, realGuildKey, windowDays, windowDelta) ==
  GrowthInputsOfDelta(baseStart, baseEnd, realGuildKey, windowDays,
    IF QLt(QZero, windowDelta) THEN windowDelta ELSE QZero)

GrowthInputsOfEnds(baseStart, baseEnd, realGuildKey, windowIntervals) ==
  GrowthInputsOfWindowDelta(baseStart, baseEnd, realGuildKey,
    SumSeq([i \in DOMAIN windowIntervals |-> windowIntervals[i].days]),
    IF Len(windowIntervals) > 0
    THEN QSum([i \in DOMAIN windowIntervals |-> windowIntervals[i].delta])
    ELSE QInt(baseEnd - baseStart))

\* the body of WINDOW_KEYS.forEach in buildGrowthInputsForPoints
GrowthInputsOfWindow(windowPoints, windowIntervals) ==
  IF Len(windowPoints) > 0
  THEN GrowthInputsOfEnds(windowPoints[1].baseStats,
                          windowPoints[Len(windowPoints)].baseStats,
                          windowPoints[Len(windowPoints)].guildKey, windowIntervals)
  ELSE GrowthInputsOfEnds(0, 0, NoKey, windowIntervals)

buildGrowthInputsForPoints(points, intervals, windowMetaByKey) ==
  Table([windowKey \in Range(WINDOW_KEYS) |->
    GrowthInputsOfWindow(
      SelectSeq(points, LAMBDA pt : isWithinWindow(pt.date, windowMetaByKey[windowKey])),
      intervalsWithin(intervals, windowMetaByKey[windowKey]))])

\* growthInputsByPlayer / globalGrowthInputsByPlayer as the list of its
\* values, in the order of the players
growthInputsOf(list, windowMetaByKey) ==
  Array([i \in DOMAIN list |->
           buildGrowthInputsForPoints(list[i].points, list[i].intervals.baseStats,
                                      windowMetaByKey)])

\* One column of memberlistColumns is [columnKey, playerKeys].  The custom
\* key of a player is that of the last column other than 'col-1' that
\* lists the player.
CustomKeyOfColumns(cols) == "custom:" \o cols[Len(cols)].columnKey

CustomColumnsOf(memberlistColumns, playerKey) ==
  SelectSeq(memberlistColumns,
            LAMBDA c : /\ c.columnKey # "col-1"
                       /\ \E i \in DOMAIN c.playerKeys : c.playerKeys[i] = playerKey)

\* buildCustomGuildMap: player key -> 'custom:<column>'
buildCustomGuildMap(memberlistColumns) ==
  Table([playerKey \in UNION {Range(memberlistColumns[c].playerKeys) :
                                c \in {x \in DOMAIN memberlistColumns :
                                         memberlistColumns[x].columnKey # "col-1"}} |->
           CustomKeyOfColumns(CustomColumnsOf(memberlistColumns, playerKey))])

\* serverTopKeysByServer sorted by baseStats descending: server -> the
\* latest snapshot's players of the server
sortedByBase(latestStats) ==
  Table([server \in {latestStats[i].server : i \in DOMAIN latestStats} |->
           SortDescByField(SelectSeq(latestStats, LAMBDA st : st.server = server),
                           "baseStats")])

serverTop150KeysByServer(sortedLatest) ==
  Table([server \in DOMAIN sortedLatest |->
           Range(Column(Slice(sortedLatest[server], 0, SERVER_AVG_TOP_LIMIT),
                        "playerKey"))])

\* !serverTop150 || serverTop150.size === 0 || serverTop150.has(playerKey)
includeInServerAvg(top150, player) ==
  \/ player.server \notin DOMAIN top150
  \/ top150[player.server] = {}
  \/ player.playerKey \in top150[player.server]

\* what the baseline loops read of one global player
BaselineEntry(player, inputs, include, customGuildKey) ==
  [playerKey |-> player.playerKey,
   server |-> player.server,
   inputs |-> inputs,
   include |-> include,
   customGuildKey |-> customGuildKey,
   intervals |-> player.intervals.baseStats,
   windowMetrics |-> player.windowMetrics.baseStats]

BaselineEntries(globalPlayers, globalInputs, top150, customGuildByPlayer) ==
  Array([i \in DOMAIN globalPlayers |->
           BaselineEntry(globalPlayers[i], globalInputs[i],
                         includeInServerAvg(top150, globalPlayers[i]),
                         GetOr(customGuildByPlayer, globalPlayers[i].playerKey, NoKey))])

AbsPerDayOf(list, windowKey) ==
  Array([k \in DOMAIN list |-> list[k].inputs[windowKey].absPerDay])

RelPerDayOf(list, windowKey) ==
  Array([k \in DOMAIN list |-> list[k].inputs[windowKey].relPerDay])

\* serverAverageByWindow[windowKey]: server -> mean absPerDay of the
\* included players
serverAverageOf(entries, windowKey) ==
  Table([server \in {entries[i].server : i \in {j \in DOMAIN entries : entries[j].include}} |->
           average(AbsPerDayOf(SelectSeq(entries,
                                 LAMBDA e : e.include /\ e.server = server), windowKey))])

GrowthGroupAverage(own, windowKey) ==
  [abs |-> average(AbsPerDayOf(own, windowKey)),
   rel |-> average(RelPerDayOf(own, windowKey)),
   count |-> Len(own)]

\* finalizeGrowthGroupStats of the stats added by addGrowthGroupStats:
\* group key -> [abs, rel, count]
\* the entries of the group: groupKeys[i] is the group key of entries[i]
GroupOf(entries, groupKeys, group) ==
  ConcatAll(Array([i \in DOMAIN entries |->
                     IF groupKeys[i] = group THEN <<entries[i]>> ELSE <<>>]))

finalizeGrowthGroupStats(entries, windowKey, groupKeys) ==
  Table([group \in Range(groupKeys) \ {NoKey} |->
           GrowthGroupAverage(GroupOf(entries, groupKeys, group), windowKey)])

realGuildAverageOf(entries, windowKey) ==
  finalizeGrowthGroupStats(entries, windowKey,
    Array([i \in DOMAIN entries |-> entries[i].inputs[windowKey].realGuildKey]))

customGuildAverageOf(entries, windowKey) ==
  finalizeGrowthGroupStats(entries, windowKey, Column(entries, "customGuildKey"))

buildIntervalKey(interval) == <<interval.startDate, interval.endDate>>

\* the intervals of the included players of the server that
\* addIntervalStat receives
IncludedIntervals(entries, server, windowMeta) ==
  ConcatAll(Array([i \in DOMAIN entries |->
    IF entries[i].server = server /\ entries[i].include
    THEN SelectSeq(intervalsWithin(entries[i].intervals, windowMeta),
                   LAMBDA iv : iv.days > 0)
    ELSE <<>>]))

IntervalAverages(intervals) ==
  Table([key \in {buildIntervalKey(intervals[i]) : i \in DOMAIN intervals} |->
           average(Column(SelectSeq(intervals, LAMBDA iv : buildIntervalKey(iv) = key),
                          "perDay"))])

\* finalizeIntervalStats: a server without an interval has no entry
finalizeIntervalStats(map) ==
  Table([server \in {sv \in DOMAIN map : DOMAIN map[sv] # {}} |-> map[server]])

\* serverIntervalAveragesByWindow[windowKey]: server -> interval key -> mean
\* perDay
serverIntervalAveragesOf(entries, windowMeta) ==
  finalizeIntervalStats(
    Table([server \in {entries[i].server : i \in DOMAIN entries} |->
             IntervalAverages(IncludedIntervals(entries, server, windowMeta))]))

InputsOf(list, windowKey) == Array([k \in DOMAIN list |-> list[k].inputs[windowKey]])

\* serverTopAverageByWindow[windowKey]: server -> mean absPerDay of the 100
\* players with the highest baseEnd
serverTopAverageOf(entries, windowKey) ==
  Table([server \in {entries[i].server : i \in DOMAIN entries} |->
    average(Column(Slice(
      SortDescByField(InputsOf(SelectSeq(entries, LAMBDA e : e.server = server), windowKey),
                      "baseEnd"),
      0, TOP_AVERAGE_LIMIT), "absPerDay"))])

\* player?.windowMetrics.baseStats[windowKey]?.perDay when it is a number
PerDayAt(found, windowKey) ==
  IF Len(found) = 0 THEN <<>>
  ELSE IF found[1].windowMetrics[windowKey] = <<>> THEN <<>>
  ELSE <<found[1].windowMetrics[windowKey][1].perDay>>

WindowPerDayOf(entries, top500, windowKey) ==
  ConcatAll(Array([k \in DOMAIN top500 |->
    PerDayAt(SelectSeq(entries, LAMBDA e : e.playerKey = top500[k].playerKey), windowKey)]))

\* serverTopPercentilesByWindow[windowKey]: server -> the ascending window
\* perDay of the latest snapshot's top 500 by baseStats
serverTopPercentilesOf(sortedLatest, entries, windowKey) ==
  Table([server \in DOMAIN sortedLatest |->
    SortValues(WindowPerDayOf(entries, Slice(sortedLatest[server], 0, TOP_PERCENTILE_LIMIT),
                              windowKey))])

\* the baselines computeScoreForWindow closes over
BaselinesOf(entries, sortedLatest, windowMetaByKey, customGuildByPlayer) ==
  [customGuildByPlayer |-> customGuildByPlayer,
   serverTopAverage |->
     Table([w \in Range(WINDOW_KEYS) |-> serverTopAverageOf(entries, w)]),
   serverAverage |->
     Table([w \in Range(WINDOW_KEYS) |-> serverAverageOf(entries, w)]),
   customGuildAverage |->
     Table([w \in Range(WINDOW_KEYS) |-> customGuildAverageOf(entries, w)]),
   realGuildAverage |->
     Table([w \in Range(WINDOW_KEYS) |-> realGuildAverageOf(entries, w)]),
   serverIntervalAverages |->
     Table([w \in Range(WINDOW_KEYS) |->
              serverIntervalAveragesOf(entries, windowMetaByKey[w])]),
   serverTopPercentiles |->
     Table([w \in Range(WINDOW_KEYS) |-> serverTopPercentilesOf(sortedLatest, entries, w)])]

BaselinesOfLatest(globalPlayers, globalInputs, sortedLatest, windowMetaByKey, customGuildByPlayer) ==
  BaselinesOf(BaselineEntries(globalPlayers, globalInputs,
                              serverTop150KeysByServer(sortedLatest), customGuildByPlayer),
              sortedLatest, windowMetaByKey, customGuildByPlayer)

buildBaselines(globalPlayers, globalInputs, latestStats, windowMetaByKey, memberlistColumns) ==
  BaselinesOfLatest(globalPlayers, globalInputs, sortedByBase(latestStats),
                    windowMetaByKey, buildCustomGuildMap(memberlistColumns))

(***************************************************************************)
(* computeDataset: scores.  Scores and their factors are fixed-point       *)
(* numbers: the integer x stands for x / SCALE.                            *)
(***************************************************************************)
FxOfQ(q) == (q.n * SCALE) \div q.d
FxMul(a, b) == (a * b) \div SCALE
FxSquare(x) == FxMul(x, x)

\* atanh(z) = z + z^3/3 + z^5/5 + z^7/7 for a small z >= 0
AtanhSeries(z, z2) ==
  z + FxMul(z2, z) \div 3 + FxMul(FxSquare(z2), z) \div 5
    + FxMul(FxMul(FxSquare(z2), z2), z) \div 7

LnOfZ(z) == 2 * AtanhSeries(z, FxSquare(z))

\* Math.log of a positive fixed-point number: 2 atanh((r - 1) / (r + 1))
LnFx(r) ==
  IF r >= SCALE THEN LnOfZ(((r - SCALE) * SCALE) \div (r + SCALE))
  ELSE -LnOfZ(((SCALE - r) * SCALE) \div (r + SCALE))

ExpSeries(t) ==
  SCALE - t + FxSquare(t) \div 2 - FxMul(FxSquare(t), t) \div 6
    + FxSquare(FxSquare(t)) \div 24

\* Math.exp(-y) for y >= 0: the series at y / 16, squared four times
ExpNegFx(y) == FxSquare(FxSquare(FxSquare(FxSquare(ExpSeries(y \div 16)))))

\* weights in percent
SCORE_WEIGHTS == [growth |-> 75, consistency |-> 25]
CONSISTENCY_EPS == SCALE \div 1000000
CONSISTENCY_RATIO_MIN == SCALE \div 2
CONSISTENCY_RATIO_MAX == SCALE + SCALE \div 2

\* 1 / (1 + exp(-ln ratio)) = ratio / (ratio + 1)
mapRatio(ratio) ==
  IF ratio <= 0 THEN 0
  ELSE clamp((ratio * SCALE) \div (ratio + SCALE), 0, SCALE)

DeviationsOf(values, med) ==
  Array([i \in DOMAIN values |-> QAbs(QSub(values[i], med))])

medianAbsoluteDeviation(values) ==
  IF Len(values) = 0 THEN QZero
  ELSE median(DeviationsOf(values, median(values)))

resolveRatio(value, primary, fallback) ==
  IF QLt(QZero, primary) THEN QDiv(value, primary)
  ELSE IF QLt(QZero, fallback) THEN QDiv(value, fallback)
  ELSE QOne

\* stats: the group's averages or undefined
isGuildValid(stats) ==
  stats # <<>> /\ stats[1].count >= GROWTH_MIN_GUILD_COUNT /\ QLt(QZero, stats[1].abs)

\* key ? map.get(key) : undefined
GroupStatsOf(map, key) ==
  IF key # NoKey /\ key \in DOMAIN map THEN <<map[key]>> ELSE <<>>

GuildRefOf_realFirst(customGuildKey, customGuildStats, realGuildKey, realGuildStats, serverAvgAbsPerDay) ==
  IF isGuildValid(realGuildStats)
  THEN [guildRefType |-> "real", guildRefKey |-> realGuildKey,
        guildAbsAvg |-> realGuildStats[1].abs]
  ELSE IF isGuildValid(customGuildStats)
  THEN [guildRefType |-> "custom", guildRefKey |-> customGuildKey,
        guildAbsAvg |-> customGuildStats[1].abs]
  ELSE [guildRefType |-> "none", guildRefKey |-> NoKey,
        guildAbsAvg |-> serverAvgAbsPerDay]

\* the guild reference: custom before real before none
GuildRefOf(customGuildKey, customGuildStats, realGuildKey, realGuildStats, serverAvgAbsPerDay) ==
  IF isGuildValid(customGuildStats)
  THEN [guildRefType |-> "custom", guildRefKey |-> customGuildKey,
        guildAbsAvg |-> customGuildStats[1].abs]
  ELSE IF isGuildValid(realGuildStats)
  THEN [guildRefType |-> "real", guildRefKey |-> realGuildKey,
        guildAbsAvg |-> realGuildStats[1].abs]
  ELSE [guildRefType |-> "none", guildRefKey |-> NoKey,
        guildAbsAvg |-> serverAvgAbsPerDay]

GrowthRecord_guildPace(absPerDay, serverAvgAbsPerDay, absVsServerAvg, guildRef) ==
  [growthScore |->
     clamp((70 * mapRatio(FxOfQ(resolveRatio(absPerDay, guildRef.guildAbsAvg,
                                             serverAvgAbsPerDay)))
            + 20 * (SCALE \div 2) + 10 * (SCALE \div 2)) \div 100, 0, SCALE),
   absPerDay |-> absPerDay,
   serverAvgAbsPerDay |-> serverAvgAbsPerDay,
   absVsServerAvg |-> absVsServerAvg,
   absVsGuild |-> resolveRatio(absPerDay, guildRef.guildAbsAvg, serverAvgAbsPerDay),
   guildRefType |-> guildRef.guildRefType,
   guildRefKey |-> guildRef.guildRefKey]

\* growthScore = clamp(0.7 * absN + 0.2 * relN + 0.1 * momN, 0, 1) with
\* absN = mapRatio(absVsServerAvg), relN = momN = 0.5
GrowthRecord(absPerDay, serverAvgAbsPerDay, absVsServerAvg, guildRef) ==
  [growthScore |->
     clamp((70 * mapRatio(FxOfQ(absVsServerAvg)) + 20 * (SCALE \div 2)
            + 10 * (SCALE \div 2)) \div 100, 0, SCALE),
   absPerDay |-> absPerDay,
   serverAvgAbsPerDay |-> serverAvgAbsPerDay,
   absVsServerAvg |-> absVsServerAvg,
   absVsGuild |-> resolveRatio(absPerDay, guildRef.guildAbsAvg, serverAvgAbsPerDay),
   guildRefType |-> guildRef.guildRefType,
   guildRefKey |-> guildRef.guildRefKey]

GrowthOfServerAvg(growthInputs, avgTop100, serverAvgAbsPerDay, customGuildKey, customGuildStats, realGuildStats) ==
  GrowthRecord(growthInputs.absPerDay, serverAvgAbsPerDay,
               resolveRatio(growthInputs.absPerDay, serverAvgAbsPerDay, avgTop100),
               GuildRefOf(customGuildKey, customGuildStats, growthInputs.realGuildKey,
                          realGuildStats, serverAvgAbsPerDay))

\* the growth part of computeScoreForWindow
GrowthOf(growthInputs, avgTop100, serverAvgRaw, customGuildKey, customGuildStats, realGuildStats) ==
  GrowthOfServerAvg(growthInputs, avgTop100,
                    IF QLt(QZero, serverAvgRaw) THEN serverAvgRaw
                    ELSE IF QLt(QZero, avgTop100) THEN avgTop100 ELSE QZero,
                    customGuildKey, customGuildStats, realGuildStats)

\* the interval filter of computeScoreForWindow: an empty window date does
\* not bound
inScoreWindow(interval, windowMeta) ==
  /\ ~(windowMeta.startDate # NoDate /\ interval.startDate < windowMeta.startDate)
  /\ ~(windowMeta.endDate # NoDate /\ interval.endDate > windowMeta.endDate)

\* serverAvg > 0 ? interval.perDay / serverAvg : 1
ratioRawOf(perDay, serverAvg) ==
  IF QLt(QZero, serverAvg) THEN FxOfQ(QDiv(perDay, serverAvg)) ELSE SCALE

ratiosOf(rated, serverIntervalMap) ==
  Array([i \in DOMAIN rated |->
    clamp(ratioRawOf(rated[i].perDay,
                     GetOr(serverIntervalMap, buildIntervalKey(rated[i]), QZero)),
          CONSISTENCY_RATIO_MIN, CONSISTENCY_RATIO_MAX)])

XValuesOf(ratios) ==
  Array([i \in DOMAIN ratios |-> QInt(LnFx(Max(ratios[i], CONSISTENCY_EPS)))])

AbsValuesOf(xValues) == Array([i \in DOMAIN xValues |-> QAbs(xValues[i])])

\* Math.exp(-k * value) of a rational value
ExpNegOf(k, value) == ExpNegFx((k * value.n) \div value.d)

ConsistencyOfX(ratios, xValues) ==
  [aboveShare |->
     (Len(SelectSeq(ratios, LAMBDA r : r >= SCALE)) * SCALE) \div Len(ratios),
   closeness |-> ExpNegOf(CONSISTENCY_GAP_K, average(AbsValuesOf(xValues))),
   stability |-> IF Len(xValues) > 1
                 THEN ExpNegOf(CONSISTENCY_MAD_K, medianAbsoluteDeviation(xValues))
                 ELSE SCALE \div 2]

ConsistencyParts(ratios) ==
  IF Len(ratios) = 0
  THEN [aboveShare |-> SCALE \div 2, closeness |-> SCALE \div 2,
        stability |-> SCALE \div 2]
  ELSE ConsistencyOfX(ratios, XValuesOf(ratios))

ConsistencyRecord(ratios, parts) ==
  [ratios |-> ratios,
   consistencyScore |->
     clamp((40 * parts.aboveShare + 35 * parts.closeness + 25 * parts.stability) \div 100,
           0, SCALE)]

\* the consistency part of computeScoreForWindow
ConsistencyOf(ratios) == ConsistencyRecord(ratios, ConsistencyParts(ratios))

LevelRecord(levelPer30) ==
  [levelPer30 |-> levelPer30,
   lowLeveling |-> levelPer30 # <<>> /\ QLt(levelPer30[1], QInt(LEVEL_PER_30_TARGET)),
   levelPenalty |->
     IF levelPer30 # <<>>
     THEN clamp(FxOfQ(QDiv(QSub(QInt(LEVEL_PER_30_TARGET), levelPer30[1]),
                           QInt(LEVEL_PER_30_TARGET))), 0, SCALE)
     ELSE 0]

\* the level part of computeScoreForWindow
LevelOf(levelWindowDays, windowPoints) ==
  LevelRecord(IF Len(windowPoints) > 0 /\ levelWindowDays > 0
              THEN <<Q(Max(0, windowPoints[Len(windowPoints)].level
                              - windowPoints[1].level) * 30, levelWindowDays)>>
              ELSE <<>>)

CoverageRecord(coverage) ==
  [coverage |-> coverage,
   coverageFactor |-> clamp(FxOfQ(coverage), (3 * SCALE) \div 4, SCALE)]

\* possibleIntervals > 0 ? intervals.length / possibleIntervals : 1
CoverageOf(realized, possibleIntervals) ==
  CoverageRecord(IF possibleIntervals > 0 THEN Q(realized, possibleIntervals) ELSE QOne)

\* (start?.metric ?? 0) >= cap || (end?.metric ?? 0) >= cap
CappedAt(points, ends, metric, cap) ==
  \/ ends.start # 0 /\ points[ends.start][metric] >= cap
  \/ ends.end # 0 /\ points[ends.end][metric] >= cap

CapsOf(points, ends) ==
  [mineCapped |-> CappedAt(points, ends, "mine", MINE_CAP),
   treasuryCapped |-> CappedAt(points, ends, "treasury", TREASURY_CAP)]

FinalRecord(scoreRaw, scoreWithCoverage, scoreAfterLevelPenalty) ==
  [scoreRaw |-> scoreRaw,
   scoreWithCoverage |-> scoreWithCoverage,
   scoreAfterLevelPenalty |-> scoreAfterLevelPenalty,
   score |-> clamp(scoreAfterLevelPenalty, 0, SCALE)]

FinalOfCoverage_noPenalty(scoreRaw, scoreWithCoverage, levelPenalty) ==
  FinalRecord(scoreRaw, scoreWithCoverage, scoreWithCoverage)

\* scoreAfterLevelPenalty = scoreWithCoverage * (1 - 0.15 * levelPenalty)
FinalOfCoverage(scoreRaw, scoreWithCoverage, levelPenalty) ==
  FinalRecord(scoreRaw, scoreWithCoverage,
              FxMul(scoreWithCoverage, SCALE - (LEVEL_PENALTY_MAX * levelPenalty) \div 100))

FinalOfRaw(scoreRaw, coverageFactor, levelPenalty) ==
  FinalOfCoverage(scoreRaw, FxMul(scoreRaw, coverageFactor), levelPenalty)

\* scoreRaw, scoreWithCoverage, scoreAfterLevelPenalty and score
FinalOf(growthScore, consistencyScore, coverageFactor, levelPenalty) ==
  FinalOfRaw((SCORE_WEIGHTS.growth * growthScore
              + SCORE_WEIGHTS.consistency * consistencyScore) \div 100,
             coverageFactor, levelPenalty)

ScoreWindowMeta(growth, percentileTop500, consistency, level, coverage, caps, final, realized, possibleIntervals) ==
  [score |-> final.score,
   growthScore |-> growth.growthScore,
   percentileTop500 |-> percentileTop500,
   consistencyScore |-> consistency.consistencyScore,
   levelPer30 |-> level.levelPer30,
   lowLeveling |-> level.lowLeveling,
   coverage |-> coverage.coverage,
   mineCapped |-> caps.mineCapped,
   treasuryCapped |-> caps.treasuryCapped,
   scoreDebug |->
     [scoreRaw |-> final.scoreRaw,
      levelPenalty |-> level.levelPenalty,
      scoreWithCoverage |-> final.scoreWithCoverage,
      scoreAfterLevelPenalty |-> final.scoreAfterLevelPenalty,
      coverageFactor |-> coverage.coverageFactor,
      absPerDay |-> growth.absPerDay,
      serverAvgAbsPerDay |-> growth.serverAvgAbsPerDay,
      absVsServerAvg |-> growth.absVsServerAvg,
      absVsGuild |-> growth.absVsGuild,
      guildRefType |-> growth.guildRefType,
      guildRefKey |-> growth.guildRefKey,
      ratios |-> consistency.ratios,
      realized |-> realized,
      possibleIntervals |-> possibleIntervals]]

ScoreOfParts(growth, percentileTop500, consistency, level, coverage, caps, realized, possibleIntervals) ==
  ScoreWindowMeta(growth, percentileTop500, consistency, level, coverage, caps,
                  FinalOf(growth.growthScore, consistency.consistencyScore,
                          coverage.coverageFactor, level.levelPenalty),
                  realized, possibleIntervals)

BasePerDayOf(windowMetric) ==
  IF windowMetric = <<>> THEN QZero ELSE windowMetric[1].perDay

LevelWindowDays(levelIntervals) ==
  SumSeq([i \in DOMAIN levelIntervals |-> levelIntervals[i].days])

ScoreOfIntervals(context, B, w, windowMeta, intervals) ==
  ScoreOfParts(
    GrowthOf(context.growthInputsByWindow[w],
             GetOr(B.serverTopAverage[w], context.server, QZero),
             GetOr(B.serverAverage[w], context.server, QZero),
             GetOr(B.customGuildByPlayer, context.playerKey, NoKey),
             GroupStatsOf(B.customGuildAverage[w],
                          GetOr(B.customGuildByPlayer, context.playerKey, NoKey)),
             GroupStatsOf(B.realGuildAverage[w],
                          context.growthInputsByWindow[w].realGuildKey)),
    percentileFromSorted(GetOr(B.serverTopPercentiles[w], context.server, <<>>),
                         BasePerDayOf(context.windowMetrics.baseStats[w])),
    ConsistencyOf(ratiosOf(SelectSeq(intervals, LAMBDA iv : iv.days > 0),
                           GetOr(B.serverIntervalAverages[w], context.server, <<>>))),
    LevelOf(LevelWindowDays(SelectSeq(context.levelIntervals,
                                      LAMBDA iv : inScoreWindow(iv, windowMeta))),
            SelectSeq(context.points, LAMBDA pt : isWithinWindow(pt.date, windowMeta))),
    CoverageOf(Len(intervals), windowMeta.possibleIntervals),
    CapsOf(context.points,
           resolveWindowItems(Array([i \in DOMAIN context.points |->
                                       context.points[i].date]), w)),
    Len(intervals), windowMeta.possibleIntervals)

\* context: [windowKey, playerKey, server, points, intervals, levelIntervals,
\* windowMetrics, windowMeta, growthInputsByWindow]; B: the baselines of the
\* dataset
computeScoreForWindow(context, B) ==
  ScoreOfIntervals(context, B, context.windowKey, context.windowMeta[context.windowKey],
    SelectSeq(context.intervals,
              LAMBDA iv : inScoreWindow(iv, context.windowMeta[context.windowKey])))

TimelineContext(player, slice, intervals, windowMeta) ==
  [windowKey |-> DEFAULT_SCORE_WINDOW,
   playerKey |-> player.playerKey,
   server |-> player.server,
   points |-> slice,
   intervals |-> intervals,
   levelIntervals |-> buildIntervals(slice, "level"),
   windowMetrics |-> buildWindowMetricsForPoints(slice),
   windowMeta |-> windowMeta,
   growthInputsByWindow |-> buildGrowthInputsForPoints(slice, intervals, windowMeta)]

\* the body of the loop of buildScoreTimelineForPlayer
TimelineEntry(player, slice, B) ==
  [date |-> slice[Len(slice)].date,
   score |->
     computeScoreForWindow(
       TimelineContext(player, slice,
                       buildIntervals(slice, "baseStats"),
                       buildWindowMeta(Array([i \in DOMAIN slice |-> slice[i].date]))),
       B).score]

buildScoreTimelineForPlayer(player, B) ==
  Array([index \in DOMAIN player.points |->
           TimelineEntry(player, SubSeq(player.points, 1, index), B)])

ScoreContext(player, windowKey, growthInputsByWindow, windowMetaByKey) ==
  [windowKey |-> windowKey,
   playerKey |-> player.playerKey,
   server |-> player.server,
   points |-> player.points,
   intervals |-> player.intervals.baseStats,
   levelIntervals |-> player.intervals.level,
   windowMetrics |-> player.windowMetrics,
   windowMeta |-> windowMetaByKey,
   growthInputsByWindow |-> growthInputsByWindow]

ScoredOfMeta(player, meta, B) ==
  [playerKey |-> player.playerKey,
   server |-> player.server,
   latestGuildKey |-> player.latestGuildKey,
   points |-> player.points,
   intervals |-> player.intervals,
   perDayYear |-> player.perDayYear,
   windowMetrics |-> player.windowMetrics,
   percentiles |-> player.percentiles,
   scoreByWindow |-> Table([windowKey \in Range(WINDOW_KEYS) |-> meta[windowKey].score]),
   scoreMeta |-> meta,
   score |-> meta[DEFAULT_SCORE_WINDOW].score,
   scoreTimeline |-> buildScoreTimelineForPlayer(player, B),
   rank |-> 0,
   recommendation |-> "None"]

\* the body of applyScores' list.forEach
scoredPlayer(player, growthInputsByWindow, windowMetaByKey, B) ==
  ScoredOfMeta(player,
    Table([windowKey \in Range(WINDOW_KEYS) |->
             computeScoreForWindow(
               ScoreContext(player, windowKey, growthInputsByWindow, windowMetaByKey), B)]),
    B)

applyScores(list, growthInputs, windowMetaByKey, B) ==
  Array([i \in DOMAIN list |->
           scoredPlayer(list[i], growthInputs[i], windowMetaByKey, B)])

(***************************************************************************)
(* computeDataset: ranks and recommendations                               *)
(***************************************************************************)
scoreValue(player) == player.scoreByWindow[DEFAULT_SCORE_WINDOW]

\* list.sort((a, b) => scoreValue(b) - scoreValue(a))
sortByScore(list) ==
  SortDescBy(list, Array([i \in DOMAIN list |-> QInt(scoreValue(list[i]))]))

mainList(rosterSortedByScore) ==
  Column(Slice(rosterSortedByScore, 0, MAIN_LIMIT), "playerKey")

wingList_fromStart(rosterSortedByScore) ==
  Column(Slice(rosterSortedByScore, 0, WING_LIMIT), "playerKey")

wingList(rosterSortedByScore) ==
  Column(Slice(rosterSortedByScore, MAIN_LIMIT, WING_LIMIT), "playerKey")

assignRecommendation(playerKey, mainSet, wingSet) ==
  IF playerKey \in mainSet THEN "Main"
  ELSE IF playerKey \in wingSet THEN "Wing"
  ELSE "None"

assignRanks_dense(sorted) ==
  Array([index \in DOMAIN sorted |->
           Cardinality({scoreValue(sorted[j]) : j \in 1..index})])

\* player.rank = index + 1 for the 0-based index of forEach
assignRanks(sorted) == Array([index \in DOMAIN sorted |-> index])

Ranked(sorted, ranks, mainSet, wingSet) ==
  Array([i \in DOMAIN sorted |->
           [sorted[i] EXCEPT
              !.rank = ranks[i],
              !.recommendation =
                assignRecommendation(sorted[i].playerKey, mainSet, wingSet)]])

RankedOfLists(players, globalPlayers, main, wing) ==
  [players |-> Ranked(players, assignRanks(players), Range(main), Range(wing)),
   globalPlayers |->
     Ranked(globalPlayers, assignRanks(globalPlayers), Range(main), Range(wing)),
   recommendations |-> [main |-> main, wing |-> wing]]

RankedOfRoster(players, globalPlayers, rosterSortedByScore) ==
  RankedOfLists(players, globalPlayers,
                mainList(rosterSortedByScore), wingList(rosterSortedByScore))

RankedOfSorted(players, globalPlayers) ==
  RankedOfRoster(players, globalPlayers, sortByScore(players))

\* the sorts, the ranks and the recommendations of computeDataset:
\* [players, globalPlayers, recommendations]
rankAndRecommend(players, globalPlayers) ==
  RankedOfSorted(sortByScore(players), sortByScore(globalPlayers))

(***************************************************************************)
(* computeDataset                                                          *)
(***************************************************************************)
\* meta?.field ?? snapshot.scannedAt
MetaOr(index, field) ==
  IF Len(index.meta) = 0 THEN index.scannedAt ELSE index.meta[1][field]

snapshotSummaries(indexed, guildKeys, rosterKeys) ==
  Array([sn \in DOMAIN indexed |->
           [id |-> MetaOr(indexed[sn], "id"),
            label |-> MetaOr(indexed[sn], "label"),
            date |-> MetaOr(indexed[sn], "date"),
            guildCount |-> Len(guildKeys),
            memberCount |-> Len(rosterStats(indexed[sn], rosterKeys))]])

WorkerResult(indexed, guilds, ranked, snapshots) ==
  [latestDate |-> IF Len(indexed) = 0 THEN NoDate ELSE indexed[Len(indexed)].scannedAt,
   rangeStart |-> IF Len(indexed) = 0 THEN NoDate ELSE indexed[1].scannedAt,
   snapshots |-> snapshots,
   players |-> ranked.players,
   globalPlayers |-> ranked.globalPlayers,
   guilds |-> guilds,
   recommendations |-> ranked.recommendations]

DatasetOfBaselines(indexed, guilds, snapshots, players, globalPlayers, inputs, globalInputs, windowMetaByKey, B) ==
  WorkerResult(indexed, guilds,
               rankAndRecommend(applyScores(players, inputs, windowMetaByKey, B),
                                applyScores(globalPlayers, globalInputs, windowMetaByKey, B)),
               snapshots)

LatestStats(indexed) ==
  IF Len(indexed) = 0 THEN <<>> ELSE indexed[Len(indexed)].playersByKey

DatasetOfInputs(in, indexed, guilds, snapshots, players, globalPlayers, inputs, globalInputs, windowMetaByKey) ==
  DatasetOfBaselines(indexed, guilds, snapshots, players, globalPlayers, inputs,
                     globalInputs, windowMetaByKey,
                     buildBaselines(globalPlayers, globalInputs, LatestStats(indexed),
                                    windowMetaByKey, in.memberlistColumns))

DatasetOfPlayers(in, indexed, guilds, snapshots, players, globalPlayers, windowMetaByKey) ==
  DatasetOfInputs(in, indexed, guilds, snapshots, players, globalPlayers,
                  growthInputsOf(players, windowMetaByKey),
                  growthInputsOf(globalPlayers, windowMetaByKey), windowMetaByKey)

DatasetOfRoster(in, indexed, guildKeys, rosterKeys) ==
  DatasetOfPlayers(in, indexed,
    guildsComputed(indexed, guildKeys),
    snapshotSummaries(indexed, guildKeys, rosterKeys),
    withPercentiles(playersComputed(seriesOf(rosterPushes(indexed, rosterKeys)))),
    withPercentiles(playersComputed(seriesOf(globalPushes(indexed)))),
    buildWindowMeta(Array([sn \in DOMAIN indexed |-> indexed[sn].scannedAt])))

DatasetOfGuildKeys(in, indexed, guildKeys) ==
  DatasetOfRoster(in, indexed, guildKeys, rosterKeysOf(indexed, guildKeys))

DatasetOfIndex(in, indexed) ==
  DatasetOfGuildKeys(in, indexed, rosterGuildKeys(indexed, in.guildFilterKeys))

\* in: [snapshots, guildFilterKeys, memberlistColumns]
computeDataset(in) ==
  DatasetOfIndex(in, indexedSnapshots(pairSnapshots(in.snapshots, in.manifestSnapshots)))

(***************************************************************************)
(* Specification of computeDataset.  The inputs are snapshot lists of up   *)
(* to MaxSnaps scans of four players in two guilds: a schedule of scan     *)
(* dates (short gaps, or two scans a long gap apart), a membership         *)
(* scenario and a growth profile.                                          *)
(***************************************************************************)
DsPlayers == <<"a", "b", "c", "d">>
\* the gaps between scans, in ticks
DsGaps == {0, 3, 7}
\* a gap of eleven days and a half
DsLongGap == 11 * TicksPerDay + TicksPerDay \div 2
DsSchedules == UNION {[1..(n - 1) -> DsGaps] : n \in 1..MaxSnaps} \cup {<<DsLongGap>>}
DsScenarios == {"plain", "filter", "filterTwice", "listedTwice", "twoGuilds",
                "joinLeave", "twoServers", "filterUnknown", "custom", "unsorted"}

\* per player: the base stat at the first scan, its gain per scan, its
\* extra gain from the third scan on, the level gain per scan
DsProfiles ==
  {<<[base |-> 20, inc |-> 3, jump |-> 0, linc |-> 1],
     [base |-> 15, inc |-> 1, jump |-> 2, linc |-> 0],
     [base |-> 30, inc |-> 2, jump |-> 0, linc |-> 2],
     [base |-> 10, inc |-> 0, jump |-> 0, linc |-> 0]>>,
   <<[base |-> 20, inc |-> 0, jump |-> 0, linc |-> 0],
     [base |-> 20, inc |-> 0, jump |-> 0, linc |-> 0],
     [base |-> 20, inc |-> 0, jump |-> 0, linc |-> 0],
     [base |-> 20, inc |-> 0, jump |-> 0, linc |-> 0]>>,
   <<[base |-> 12, inc |-> -2, jump |-> 0, linc |-> 1],
     [base |-> 12, inc |-> 4, jump |-> -3, linc |-> 1],
     [base |-> 8, inc |-> 1, jump |-> 5, linc |-> 0],
     [base |-> 9, inc |-> 1, jump |-> 0, linc |-> 1]>>,
   <<[base |-> 11, inc |-> 2, jump |-> 0, linc |-> 1],
     [base |-> 11, inc |-> 2, jump |-> 0, linc |-> 1],
     [base |-> 14, inc |-> 2, jump |-> 0, linc |-> 1],
     [base |-> 14, inc |-> 6, jump |-> 1, linc |-> 0]>>}

DsDate(schedule, k) == SumSeq(SubSeq(schedule, 1, k - 1))

DsMember(p, k, profile, scenario) ==
  [playerKey |-> DsPlayers[p],
   server |-> IF scenario = "twoServers" /\ p >= 3 THEN "s2" ELSE "s1",
   baseStats |-> profile[p].base + profile[p].inc * (k - 1)
                 + (IF k >= 3 THEN profile[p].jump ELSE 0),
   level |-> 391 + p + profile[p].linc * (k - 1),
   exp |-> 100 * k,
   expNext |-> 1000,
   mine |-> IF p = 1 THEN 98 + k ELSE 5 + p * k,
   treasury |-> 5 * p + (5 - p) * k]

\* the member positions of guilds g1 and g2 at scan k of n
DsGuildMembers(k, n, scenario) ==
  IF scenario = "listedTwice" THEN << <<1, 2, 1>>, <<3, 4>> >>
  ELSE IF scenario = "twoGuilds" THEN << <<1, 2>>, <<1, 3, 4>> >>
  ELSE IF scenario = "joinLeave"
  THEN IF k = 1 /\ n > 1 THEN << <<1, 2>>, <<3>> >>
       ELSE IF k = n /\ n > 1 THEN << <<1>>, <<2, 4>> >>
       ELSE << <<1, 2>>, <<3, 4>> >>
  ELSE << <<1, 2>>, <<3, 4>> >>

\* in the filterUnknown scenario the second guild carries the key gX at
\* every scan before the latest one
DsGuildKey(g, k, n, scenario) ==
  IF g = 1 THEN "g1"
  ELSE IF scenario = "filterUnknown" /\ k < n THEN "gX" ELSE "g2"

DsGuild(g, members, k, n, profile, scenario) ==
  [guildKey |-> DsGuildKey(g, k, n, scenario),
   members |-> Array([i \in DOMAIN members |-> DsMember(members[i], k, profile, scenario)])]

DsSnapshot(k, schedule, profile, scenario) ==
  [scannedAt |-> DsDate(schedule, k),
   guilds |-> Array([g \in 1..2 |->
                DsGuild(g, DsGuildMembers(k, Len(schedule) + 1, scenario)[g],
                        k, Len(schedule) + 1, profile, scenario)])]

DsSnapshots(n, schedule, profile, scenario) ==
  Array([k \in 1..n |->
           DsSnapshot(IF scenario = "unsorted" THEN n + 1 - k ELSE k,
                      schedule, profile, scenario)])

\* the manifest entry of the snapshot at an input index; the manifest of
\* the twoServers scenario lacks the entry of the last index
DsMeta(index, snapshots) ==
  [id |-> 1000 + index, label |-> 2000 + index, date |-> snapshots[index].scannedAt]

DsManifest(snapshots, scenario) ==
  Array([index \in 1..(IF scenario = "twoServers" THEN Len(snapshots) - 1 ELSE Len(snapshots)) |->
           DsMeta(index, snapshots)])

DsInputOf(snapshots, scenario) ==
  [snapshots |-> snapshots,
   manifestSnapshots |-> DsManifest(snapshots, scenario),
   guildFilterKeys |-> IF scenario = "filter" THEN <<"g1">>
                       ELSE IF scenario = "filterTwice" THEN <<"g1", "g1">>
                       ELSE IF scenario = "filterUnknown" THEN <<"gX", "g2">>
                       ELSE <<>>,
   memberlistColumns |->
     IF scenario = "custom"
     THEN <<[columnKey |-> "col-1", playerKeys |-> <<"a">>],
            [columnKey |-> "col-2", playerKeys |-> <<"a", "c">>],
            [columnKey |-> "col-3", playerKeys |-> <<"d">>]>>
     ELSE <<>>]

DsInput(schedule, profile, scenario) ==
  DsInputOf(DsSnapshots(Len(schedule) + 1, schedule, profile, scenario), scenario)

DsInputs ==
  {[snapshots |-> <<>>, manifestSnapshots |-> <<>>, guildFilterKeys |-> <<>>,
    memberlistColumns |-> <<>>]}
    \cup {DsInput(schedule, profile, scenario) :
            schedule \in DsSchedules, profile \in DsProfiles, scenario \in DsScenarios}

Init ==
  /\ pc = "start"
  /\ input \in DsInputs
  /\ result = <<>>
  /\ NoWorker /\ NoStore

ComputeDataset ==
  /\ pc = "start"
  /\ result' = computeDataset(input)
  /\ pc' = "done"
  /\ UNCHANGED <<input, workerVars, storeVars>>

Next == ComputeDataset

Spec == Init /\ [][Next]_vars

(***************************************************************************)
(* Properties of computeDataset                                            *)
(***************************************************************************)
AllPlayers == result.players \o result.globalPlayers

ScoreIn01(x) == 0 <= x /\ x <= SCALE

\* C1: after computeDataset every score lies in [0,1]: for every player of
\* players and of globalPlayers, scoreByWindow of each window key, score and
\* every scoreTimeline entry's score.
C1_ScoresIn01 ==
  pc = "done" =>
    \A i \in DOMAIN AllPlayers :
      /\ \A w \in Range(WINDOW_KEYS) : ScoreIn01(AllPlayers[i].scoreByWindow[w])
      /\ ScoreIn01(AllPlayers[i].score)
      /\ \A t \in DOMAIN AllPlayers[i].scoreTimeline :
           ScoreIn01(AllPlayers[i].scoreTimeline[t].score)

\* a roster player and a global player with a score strictly inside (0,1),
\* a timeline whose scores differ, a score that the level penalty lowered
\* and a window in which more intervals were realized than were possible
C1_Witness ==
  /\ pc = "done"
  /\ \E i \in DOMAIN result.players :
       /\ result.players[i].score > 0 /\ result.players[i].score < SCALE
       /\ \E s, t \in DOMAIN result.players[i].scoreTimeline :
            result.players[i].scoreTimeline[s].score
              # result.players[i].scoreTimeline[t].score
  /\ \E i \in DOMAIN result.globalPlayers :
       \E w \in Range(WINDOW_KEYS) :
          /\ result.globalPlayers[i].scoreMeta[w].scoreDebug.levelPenalty > 0
          /\ result.globalPlayers[i].scoreByWindow[w] > 0
  /\ \E i \in DOMAIN AllPlayers :
       \E w \in Range(WINDOW_KEYS) : QLt(QOne, AllPlayers[i].scoreMeta[w].coverage)

\* C5: after computeDataset every percentile lies in [0,1]: the five
\* percentiles of every player of players and of globalPlayers, and the
\* top-500 percentile (percentileFromSorted) of every window.
C5_PercentilesIn01 ==
  pc = "done" =>
    \A i \in DOMAIN AllPlayers :
      /\ QIn01(AllPlayers[i].percentiles.baseStats)
      /\ QIn01(AllPlayers[i].percentiles.level)
      /\ QIn01(AllPlayers[i].percentiles.mine)
      /\ QIn01(AllPlayers[i].percentiles.treasury)
      /\ QIn01(AllPlayers[i].percentiles.resource)
      /\ \A w \in Range(WINDOW_KEYS) : QIn01(AllPlayers[i].scoreMeta[w].percentileTop500)

\* populations with percentiles 0, 1 and strictly between, a resource
\* percentile between its two parts, and top-500 percentiles 0, 1 and
\* strictly between
C5_Witness ==
  /\ pc = "done"
  /\ \E i, j, k \in DOMAIN result.globalPlayers :
       /\ result.globalPlayers[i].percentiles.baseStats = QZero
       /\ result.globalPlayers[j].percentiles.baseStats = QOne
       /\ QLt(QZero, result.globalPlayers[k].percentiles.baseStats)
       /\ QLt(result.globalPlayers[k].percentiles.baseStats, QOne)
       /\ QLt(result.globalPlayers[k].percentiles.mine,
              result.globalPlayers[k].percentiles.resource)
  /\ \E i \in DOMAIN result.players : result.players[i].percentiles.level = QOne
  /\ \E i, j, k \in DOMAIN AllPlayers :
       /\ AllPlayers[i].scoreMeta[DEFAULT_SCORE_WINDOW].percentileTop500 = QZero
       /\ AllPlayers[j].scoreMeta[DEFAULT_SCORE_WINDOW].percentileTop500 = QOne
       /\ QLt(QZero, AllPlayers[k].scoreMeta[DEFAULT_SCORE_WINDOW].percentileTop500)
       /\ QLt(AllPlayers[k].scoreMeta[DEFAULT_SCORE_WINDOW].percentileTop500, QOne)

\* days = max(1, round(ticks / TicksPerDay)), halves rounded up
DaysAreRounded(ticks, days) ==
  IF 2 * ticks < TicksPerDay THEN days = 1
  ELSE /\ (2 * days - 1) * TicksPerDay <= 2 * ticks
       /\ 2 * ticks < (2 * days + 1) * TicksPerDay

\* metric is the interval or window metric of the points start and end,
\* whose metric values differ by delta
MetricIsOf(metric, start, end, delta) ==
  /\ metric.startDate = start.date
  /\ metric.endDate = end.date
  /\ metric.days >= 1
  /\ DaysAreRounded(end.date - start.date, metric.days)
  /\ metric.delta = delta
  /\ QMul(metric.perDay, QInt(metric.days)) = metric.delta

PlayerMetricsOk(player) ==
  \A m \in Range(METRIC_KEYS) :
    /\ Len(player.intervals[m]) = Max(0, Len(player.points) - 1)
    /\ \A i \in DOMAIN player.intervals[m] :
         MetricIsOf(player.intervals[m][i], player.points[i], player.points[i + 1],
                    QInt(player.points[i + 1][m] - player.points[i][m]))
    /\ \A w \in Range(WINDOW_KEYS) :
         player.windowMetrics[m][w] # <<>> =>
           \E s, e \in DOMAIN player.points :
              MetricIsOf(player.windowMetrics[m][w][1], player.points[s], player.points[e],
                         QInt(player.points[e][m] - player.points[s][m]))

GuildMetricsOk(guild) ==
  /\ guild.intervals = guild.intervalsByMetric.baseStats
  /\ \A m \in Range(METRIC_KEYS) :
       /\ Len(guild.intervalsByMetric[m]) = Max(0, Len(guild.points) - 1)
       /\ \A i \in DOMAIN guild.intervalsByMetric[m] :
            MetricIsOf(guild.intervalsByMetric[m][i], guild.points[i], guild.points[i + 1],
                       QSub(guild.points[i + 1][m], guild.points[i][m]))

\* C9: every interval and every window metric of every player and guild has
\* days >= 1, days = max(1, round((end.date - start.date) / one day)),
\* delta = end.metric - start.metric and perDay = delta / days.
C9_IntervalMetrics ==
  pc = "done" =>
    /\ \A i \in DOMAIN AllPlayers : PlayerMetricsOk(AllPlayers[i])
    /\ \A g \in DOMAIN result.guilds : GuildMetricsOk(result.guilds[g])

\* a player with an interval of a day and a half (two days), one of no
\* time at all (one day), a negative delta and a window metric over several
\* days, and a guild with an interval whose median moved
C9_Witness ==
  /\ pc = "done"
  /\ \E i \in DOMAIN result.players :
       /\ \E a, b, c \in DOMAIN result.players[i].intervals.baseStats :
            /\ 2 * (result.players[i].intervals.baseStats[a].endDate
                    - result.players[i].intervals.baseStats[a].startDate)
                 = 3 * TicksPerDay
            /\ result.players[i].intervals.baseStats[a].days = 2
            /\ result.players[i].intervals.baseStats[b].endDate
                 = result.players[i].intervals.baseStats[b].startDate
            /\ result.players[i].intervals.baseStats[c].delta.n < 0
       /\ \E w \in Range(WINDOW_KEYS) :
            /\ result.players[i].windowMetrics.level[w] # <<>>
            /\ result.players[i].windowMetrics.level[w][1].days > 1
            /\ result.players[i].windowMetrics.level[w][1].delta.n > 0
  /\ \E g \in DOMAIN result.guilds :
       \E a \in DOMAIN result.guilds[g].intervalsByMetric.level :
          /\ result.guilds[g].intervalsByMetric.level[a].delta.n > 0
          /\ result.guilds[g].intervalsByMetric.level[a].days > 1

\* the scan dates of the snapshots, ascending
SnapshotDates == Column(SortByField(input.snapshots, "scannedAt"), "scannedAt")

\* the player's baseStats intervals inside the window [startDate, endDate]
RealizedIntervals(player, windowMeta) ==
  Len(SelectSeq(player.intervals.baseStats, LAMBDA iv : inScoreWindow(iv, windowMeta)))

\* C8 (as claimed; refuted by a player key that a snapshot lists twice in
\* the roster): for every player and window key the number of the player's
\* realized baseStats intervals inside the window is at most the window's
\* possibleIntervals, and the raw coverage ratio is at most 1.
C8_RealizedWithinPossible ==
  pc = "done" =>
    \A i \in DOMAIN AllPlayers :
      \A w \in Range(WINDOW_KEYS) :
        /\ RealizedIntervals(AllPlayers[i], resolveWindowMeta(SnapshotDates, w))
             <= resolveWindowMeta(SnapshotDates, w).possibleIntervals
        /\ QLe(AllPlayers[i].scoreMeta[w].coverage, QOne)

\* C3 (as claimed; refuted by a guild filter): globalPlayers is sorted by
\* descending 3-month score and its players at positions [0,50) are
\* labelled Main, those at [50,100) Wing and all others None.
C3_GlobalPartitionIndependent ==
  pc = "done" =>
    /\ \A i, j \in DOMAIN result.globalPlayers :
         i < j => scoreValue(result.globalPlayers[i]) >= scoreValue(result.globalPlayers[j])
    /\ \A i \in DOMAIN result.globalPlayers :
         result.globalPlayers[i].recommendation
           = IF i <= MAIN_LIMIT THEN "Main"
             ELSE IF i <= WING_LIMIT THEN "Wing" ELSE "None"

RankSizes ==
  {0, 1, 2, MAIN_LIMIT - 1, MAIN_LIMIT, MAIN_LIMIT + 1,
   WING_LIMIT - 1, WING_LIMIT, WING_LIMIT + 1, WING_LIMIT + MaxRankExtra}
RankPatterns == {"equal", "ascending", "descending", "blocks", "mixed"}
RankRosters == {"all", "tail", "odd", "reversed"}

\* the 3-month score of player i of n
RankScore(pattern, i, n) ==
  IF pattern = "equal" THEN SCALE \div 2
  ELSE IF pattern = "ascending" THEN (i * SCALE) \div n
  ELSE IF pattern = "descending" THEN ((n - i) * SCALE) \div n
  ELSE IF pattern = "blocks" THEN ((i \div 4) * 10) % (SCALE + 1)
  ELSE ((i * 7) % 5) * (SCALE \div 5)

\* a player as applyScores leaves it
RankPlayer(key, score) ==
  [playerKey |-> key,
   scoreByWindow |-> Table([w \in Range(WINDOW_KEYS) |->
                              IF w = DEFAULT_SCORE_WINDOW THEN score ELSE SCALE - score]),
   score |-> score,
   rank |-> 0,
   recommendation |-> "None"]

RankGlobal(n, pattern) ==
  Array([i \in 1..n |-> RankPlayer(i, RankScore(pattern, i, n))])

RankRoster(global, roster) ==
  IF roster = "all" THEN global
  ELSE IF roster = "tail" THEN SubSeq(global, 3, Len(global))
  ELSE IF roster = "odd" THEN SelectSeq(global, LAMBDA player : player.playerKey % 2 = 1)
  ELSE Array([i \in DOMAIN global |-> global[Len(global) + 1 - i]])

RankInput(global, roster) ==
  [players |-> RankRoster(global, roster), globalPlayers |-> global]

RankInputs ==
  {RankInput(RankGlobal(n, pattern), roster) :
     n \in RankSizes, pattern \in RankPatterns, roster \in RankRosters}

RankInit ==
  /\ pc = "start"
  /\ input \in RankInputs
  /\ result = <<>>
  /\ NoWorker /\ NoStore

RankAndRecommend ==
  /\ pc = "start"
  /\ result' = rankAndRecommend(input.players, input.globalPlayers)
  /\ pc' = "done"
  /\ UNCHANGED <<input, workerVars, storeVars>>

RankNext == RankAndRecommend

SpecRank == RankInit /\ [][RankNext]_vars

\* the keys of the roster players with the label
Labelled(label) ==
  {result.players[i].playerKey :
     i \in {j \in DOMAIN result.players : result.players[j].recommendation = label}}

\* Main before Wing before None
Tier(label) == IF label = "Main" THEN 0 ELSE IF label = "Wing" THEN 1 ELSE 2

\* C2: the labels partition the roster: every player of players is Main,
\* Wing or None, at most 50 are Main and at most 50 Wing, no key is in both
\* recommendation lists, the lists hold exactly the keys of the players
\* labelled Main and Wing, and no player of a lower tier has a higher
\* 3-month score than a player of a higher tier.
C2_RecommendationPartition ==
  pc = "done" =>
    /\ \A i \in DOMAIN result.players :
         result.players[i].recommendation \in {"Main", "Wing", "None"}
    /\ Cardinality({i \in DOMAIN result.players :
                      result.players[i].recommendation = "Main"}) <= 50
    /\ Cardinality({i \in DOMAIN result.players :
                      result.players[i].recommendation = "Wing"}) <= 50
    /\ Range(result.recommendations.main) \cap Range(result.recommendations.wing) = {}
    /\ Range(result.recommendations.main) = Labelled("Main")
    /\ Range(result.recommendations.wing) = Labelled("Wing")
    /\ Len(result.recommendations.main) = Cardinality(Labelled("Main"))
    /\ Len(result.recommendations.wing) = Cardinality(Labelled("Wing"))
    /\ \A i, j \in DOMAIN result.players :
         Tier(result.players[i].recommendation) < Tier(result.players[j].recommendation)
           => scoreValue(result.players[i]) >= scoreValue(result.players[j])

\* a roster of more than 100 players with different scores: 50 are Main,
\* 50 are Wing, the others None, and the scores tie across both limits
C2_Witness ==
  /\ pc = "done"
  /\ Len(result.players) > 100
  /\ Cardinality(Labelled("Main")) = 50
  /\ Cardinality(Labelled("Wing")) = 50
  /\ Labelled("None") # {}
  /\ \E i, j, k \in DOMAIN result.players :
       /\ result.players[i].recommendation = "Main"
       /\ result.players[j].recommendation = "Wing"
       /\ result.players[k].recommendation = "None"
       /\ scoreValue(result.players[i]) = scoreValue(result.players[j])
       /\ scoreValue(result.players[k]) < scoreValue(result.players[j])
       /\ \E m \in DOMAIN result.players :
            /\ result.players[m].recommendation = "Wing"
            /\ scoreValue(result.players[m]) = scoreValue(result.players[k])

(***************************************************************************)
(* Properties of computeDataset: sparse histories, populations, roster     *)
(***************************************************************************)
\* the positions of the input snapshots that list the player in some guild
SnapshotsListing(playerKey) ==
  {sn \in DOMAIN input.snapshots :
     \E g \in DOMAIN input.snapshots[sn].guilds :
        \E k \in DOMAIN input.snapshots[sn].guilds[g].members :
           input.snapshots[sn].guilds[g].members[k].playerKey = playerKey}

\* no interval, no window metric, and percentile 1 when the player is the
\* whole population
SparsePlayerOk(player, population) ==
  /\ \A m \in Range(METRIC_KEYS) :
       /\ player.intervals[m] = <<>>
       /\ \A w \in Range(WINDOW_KEYS) : player.windowMetrics[m][w] = <<>>
  /\ Len(population) = 1 =>
       /\ player.percentiles.baseStats = QOne
       /\ player.percentiles.level = QOne
       /\ player.percentiles.mine = QOne
       /\ player.percentiles.treasury = QOne

\* C11 (as claimed; refuted by any dataset of one snapshot): a player who
\* appears in exactly one snapshot has four empty interval lists and a null
\* window metric for every metric and window key, and percentile 1 when the
\* player is the only entry of the comparison set.
C11_SingleSnapshotPlayer ==
  pc = "done" =>
    /\ \A i \in DOMAIN result.players :
         Cardinality(SnapshotsListing(result.players[i].playerKey)) = 1
           => SparsePlayerOk(result.players[i], result.players)
    /\ \A i \in DOMAIN result.globalPlayers :
         Cardinality(SnapshotsListing(result.globalPlayers[i].playerKey)) = 1
           => SparsePlayerOk(result.globalPlayers[i], result.globalPlayers)

\* the guild key of the player's last point inside the window, the real
\* guild of the player in the window
RealKeyOfPoints(windowPoints) ==
  IF Len(windowPoints) = 0 THEN NoKey ELSE windowPoints[Len(windowPoints)].guildKey

RealKeyAt(player, meta) ==
  RealKeyOfPoints(SelectSeq(player.points, LAMBDA pt : isWithinWindow(pt.date, meta)))

RealKeyIn(player, w) == RealKeyAt(player, resolveWindowMeta(SnapshotDates, w))

\* the columns of the member list, other than 'col-1', that list the player
CustomColumnsListing(playerKey) ==
  {c \in DOMAIN input.memberlistColumns :
     /\ input.memberlistColumns[c].columnKey # "col-1"
     /\ playerKey \in Range(input.memberlistColumns[c].playerKeys)}

\* the custom group of the player: the last such column
CustomKeyOfListing(cols) ==
  IF cols = {} THEN NoKey
  ELSE "custom:" \o
       input.memberlistColumns[CHOOSE c \in cols : \A x \in cols : x <= c].columnKey

CustomKeyIn(playerKey) == CustomKeyOfListing(CustomColumnsListing(playerKey))

\* the sampled members of a group in a window: positions in globalPlayers
MembersAmong(keys, key) == {i \in DOMAIN keys : keys[i] = key}

\* the real guild key, in the window, and the custom group key of every
\* global player
RealKeysAt(meta) ==
  Array([i \in DOMAIN result.globalPlayers |-> RealKeyAt(result.globalPlayers[i], meta)])

CustomKeysOfAll ==
  Array([i \in DOMAIN result.globalPlayers |->
           CustomKeyIn(result.globalPlayers[i].playerKey)])

RealMembers(key, w) == MembersAmong(RealKeysAt(resolveWindowMeta(SnapshotDates, w)), key)

CustomMembers(key) == MembersAmong(CustomKeysOfAll, key)

\* the sum of the members' absolute paces in the window
GroupAbsSum(members, w) ==
  QSum(Array([i \in DOMAIN result.globalPlayers |->
                IF i \in members
                THEN result.globalPlayers[i].scoreMeta[w].scoreDebug.absPerDay
                ELSE QZero]))

\* a group is valid when it has a key, at least GROWTH_MIN_GUILD_COUNT
\* sampled members and a positive mean pace
GroupValid(key, members, w) ==
  /\ key # NoKey
  /\ Cardinality(members) >= GROWTH_MIN_GUILD_COUNT
  /\ QLt(QZero, GroupAbsSum(members, w))

GroupMean(members, w) == QDiv(GroupAbsSum(members, w), QInt(Cardinality(members)))

RefIs(debug, type, key, avg) ==
  /\ debug.guildRefType = type
  /\ debug.guildRefKey = key
  /\ debug.absVsGuild = resolveRatio(debug.absPerDay, avg, debug.serverAvgAbsPerDay)

GuildRefOk(debug, w, customKey, custom, realKey, real) ==
  IF GroupValid(customKey, custom, w)
  THEN RefIs(debug, "custom", customKey, GroupMean(custom, w))
  ELSE IF GroupValid(realKey, real, w)
  THEN RefIs(debug, "real", realKey, GroupMean(real, w))
  ELSE RefIs(debug, "none", NoKey, debug.serverAvgAbsPerDay)

GuildRefOfPlayer(player, w, customKey, custom, realKey, real) ==
  /\ GuildRefOk(player.scoreMeta[w].scoreDebug, w, customKey, custom, realKey, real)
  /\ player.scoreMeta[w].scoreDebug.guildRefType = "custom" => Cardinality(custom) >= 2
  /\ player.scoreMeta[w].scoreDebug.guildRefType = "real" => Cardinality(real) >= 2

GuildRefsOk(w, meta, customKeys, realKeys) ==
  \A i \in DOMAIN AllPlayers :
     GuildRefOfPlayer(AllPlayers[i], w,
                      CustomKeyIn(AllPlayers[i].playerKey),
                      MembersAmong(customKeys, CustomKeyIn(AllPlayers[i].playerKey)),
                      RealKeyAt(AllPlayers[i], meta),
                      MembersAmong(realKeys, RealKeyAt(AllPlayers[i], meta)))

GuildRefsOkIn(w, meta) == GuildRefsOk(w, meta, CustomKeysOfAll, RealKeysAt(meta))

\* C12: the guild growth reference of every player in every window is the
\* player's custom group when that group is valid (at least two sampled
\* members, positive mean pace), otherwise the player's real guild when
\* that is valid, otherwise the server average with reference type 'none';
\* a group of one sampled member is never the reference.
C12_GuildRefPrecedence ==
  pc = "done" =>
    \A w \in Range(WINDOW_KEYS) : GuildRefsOkIn(w, resolveWindowMeta(SnapshotDates, w))

\* in one window: a player whose valid custom group wins over a valid real
\* guild, and a player whose custom group of one member gives way to the
\* real guild
C12_Witness ==
  /\ pc = "done"
  /\ \E w \in Range(WINDOW_KEYS) :
       \E i, j \in DOMAIN result.globalPlayers :
          /\ result.globalPlayers[i].scoreMeta[w].scoreDebug.guildRefType = "custom"
          /\ GroupValid(RealKeyIn(result.globalPlayers[i], w),
                        RealMembers(RealKeyIn(result.globalPlayers[i], w), w), w)
          /\ result.globalPlayers[j].scoreMeta[w].scoreDebug.guildRefType = "real"
          /\ Cardinality(CustomMembers(CustomKeyIn(result.globalPlayers[j].playerKey))) = 1

\* the player's points inside the window of the dataset
WindowPointsIn(player, w) ==
  SelectSeq(player.points,
            LAMBDA pt : isWithinWindow(pt.date, resolveWindowMeta(SnapshotDates, w)))

\* the days of the player's level intervals inside the window
LevelDaysIn(player, w) ==
  SumSeq(Array([i \in DOMAIN player.intervals.level |->
                  IF inScoreWindow(player.intervals.level[i],
                                   resolveWindowMeta(SnapshotDates, w))
                  THEN player.intervals.level[i].days ELSE 0]))

\* the level did not increase across the window, over a positive number of
\* window days
LevelFlat(windowPoints, levelDays) ==
  /\ Len(windowPoints) > 0
  /\ windowPoints[Len(windowPoints)].level <= windowPoints[1].level
  /\ levelDays > 0

LevelPenaltyOk(meta, flat) ==
  /\ flat =>
       /\ meta.levelPer30 = <<QZero>>
       /\ meta.lowLeveling
       /\ meta.scoreDebug.levelPenalty > 0
       /\ meta.score < meta.scoreDebug.scoreWithCoverage
  /\ meta.levelPer30 # <<>> => (meta.lowLeveling <=> meta.scoreDebug.levelPenalty > 0)
  /\ meta.levelPer30 = <<>> => ~meta.lowLeveling /\ meta.scoreDebug.levelPenalty = 0

\* C13: for every player and window, when the level did not increase across
\* the window and the window has a positive number of level days then
\* levelPer30 = 0, lowLeveling holds, the level penalty is not zero and the
\* final score is strictly less than the score before the level penalty;
\* whenever levelPer30 is known, lowLeveling holds exactly when the penalty
\* is greater than 0.
C13_LevelPenalty ==
  pc = "done" =>
    \A i \in DOMAIN AllPlayers :
      \A w \in Range(WINDOW_KEYS) :
        LevelPenaltyOk(AllPlayers[i].scoreMeta[w],
                       LevelFlat(WindowPointsIn(AllPlayers[i], w),
                                 LevelDaysIn(AllPlayers[i], w)))

\* in one dataset: a player whose level stood still over several days and
\* who pays the full penalty, a player with a penalty strictly between 0 and
\* 1, and a player who levels fast enough to pay none
C13_Witness ==
  /\ pc = "done"
  /\ \E w \in Range(WINDOW_KEYS) :
       \E i, j, k \in DOMAIN result.players :
          /\ LevelFlat(WindowPointsIn(result.players[i], w),
                       LevelDaysIn(result.players[i], w))
          /\ LevelDaysIn(result.players[i], w) > 1
          /\ result.players[i].scoreMeta[w].scoreDebug.levelPenalty = SCALE
          /\ result.players[j].scoreMeta[w].scoreDebug.levelPenalty > 0
          /\ result.players[j].scoreMeta[w].scoreDebug.levelPenalty < SCALE
          /\ result.players[j].scoreMeta[w].lowLeveling
          /\ result.players[k].scoreMeta[w].levelPer30 # <<>>
          /\ result.players[k].scoreMeta[w].scoreDebug.levelPenalty = 0
          /\ ~result.players[k].scoreMeta[w].lowLeveling

\* the snapshot that computeDataset takes as the latest: the last one in
\* ascending scannedAt order
LatestSnapshot == sortSnapshots(input.snapshots)[Len(input.snapshots)]

GuildKeysOf(snapshot) ==
  {snapshot.guilds[g].guildKey : g \in DOMAIN snapshot.guilds}

\* the resolved roster guilds
RosterGuildSet ==
  IF Len(input.snapshots) = 0 THEN {}
  ELSE IF Len(input.guildFilterKeys) > 0
  THEN Range(input.guildFilterKeys) \cap GuildKeysOf(LatestSnapshot)
  ELSE GuildKeysOf(LatestSnapshot)

\* the player keys listed in the snapshot as members of one of the guilds
MemberKeysOf(snapshot, guildKeys) ==
  UNION {{snapshot.guilds[g].members[k].playerKey :
            k \in DOMAIN snapshot.guilds[g].members} :
         g \in {x \in DOMAIN snapshot.guilds : snapshot.guilds[x].guildKey \in guildKeys}}

EverMemberKeys(guildKeys) ==
  UNION {MemberKeysOf(input.snapshots[sn], guildKeys) : sn \in DOMAIN input.snapshots}

AllGuildKeys == UNION {GuildKeysOf(input.snapshots[sn]) : sn \in DOMAIN input.snapshots}

PlayerKeySet(list) == {list[i].playerKey : i \in DOMAIN list}

\* C14 (as claimed; refuted by a player who left the roster guilds before
\* the latest snapshot): the keys of players[] are exactly the keys listed
\* as a member of a resolved roster guild in at least one snapshot, and the
\* keys of globalPlayers[] exactly the keys listed in any guild of any
\* snapshot.
C14_RosterOfAnySnapshot ==
  pc = "done" =>
    /\ PlayerKeySet(result.players) = EverMemberKeys(RosterGuildSet)
    /\ PlayerKeySet(result.globalPlayers) = EverMemberKeys(AllGuildKeys)

\* C14 (amended): the keys of players[] are exactly the keys listed as a
\* member of a resolved roster guild in the latest snapshot, each once, and
\* the keys of globalPlayers[] exactly the keys listed in any guild of any
\* snapshot, each once.
C14_RosterOfLatest ==
  pc = "done" =>
    /\ PlayerKeySet(result.players)
         = (IF Len(input.snapshots) = 0 THEN {}
            ELSE MemberKeysOf(LatestSnapshot, RosterGuildSet))
    /\ Cardinality(PlayerKeySet(result.players)) = Len(result.players)
    /\ PlayerKeySet(result.globalPlayers) = EverMemberKeys(AllGuildKeys)
    /\ Cardinality(PlayerKeySet(result.globalPlayers)) = Len(result.globalPlayers)

\* a player who was a member of a roster guild in an earlier snapshot and
\* is in no guild of the latest one: a global player, not a roster player;
\* and a roster player who joined a roster guild after the first snapshot
C14_Witness ==
  /\ pc = "done"
  /\ \E key \in EverMemberKeys(RosterGuildSet) :
       /\ key \notin PlayerKeySet(result.players)
       /\ key \in PlayerKeySet(result.globalPlayers)
  /\ \E key \in PlayerKeySet(result.players) :
       \E sn \in DOMAIN input.snapshots :
          key \notin MemberKeysOf(input.snapshots[sn], AllGuildKeys)

GuildKeySet(guilds) == {guilds[g].guildKey : g \in DOMAIN guilds}

\* the number of filter entries that name a guild of the latest snapshot
\* (without a filter: the number of guilds of the latest snapshot)
RosterGuildCount ==
  IF Len(input.snapshots) = 0 THEN 0
  ELSE IF Len(input.guildFilterKeys) > 0
  THEN Len(SelectSeq(input.guildFilterKeys,
                     LAMBDA key : key \in GuildKeysOf(LatestSnapshot)))
  ELSE Cardinality(GuildKeysOf(LatestSnapshot))

\* C15: computeDataset returns for every filter, and the roster guilds are
\* the filter keys found among the guild keys of the latest snapshot (all
\* guild keys of the latest snapshot without a filter): result.guilds holds
\* one series for each of them and no other, every snapshot summary counts
\* them, and every guild of result.guilds is a guild of the latest snapshot.
C15_RosterGuildsOfLatest ==
  pc = "done" =>
    /\ GuildKeySet(result.guilds) = RosterGuildSet
    /\ Cardinality(GuildKeySet(result.guilds)) = Len(result.guilds)
    /\ \A g \in DOMAIN result.guilds :
         result.guilds[g].guildKey \in GuildKeysOf(LatestSnapshot)
    /\ \A sn \in DOMAIN result.snapshots :
         result.snapshots[sn].guildCount = RosterGuildCount

\* a filter with a key that an earlier snapshot knows and the latest one
\* does not, and a key of the latest snapshot: one roster guild
C15_Witness ==
  /\ pc = "done"
  /\ \E key \in Range(input.guildFilterKeys) :
       /\ key \in AllGuildKeys
       /\ key \notin GuildKeysOf(LatestSnapshot)
  /\ \E key \in Range(input.guildFilterKeys) : key \in GuildKeysOf(LatestSnapshot)
  /\ Len(result.guilds) = 1
  /\ Len(result.players) > 0

StrictlyAscendingDates(points) ==
  \A i \in 1..(Len(points) - 1) : points[i].date < points[i + 1].date

\* C16 (refuted by a roster player pushed more than once per snapshot):
\* the points of every roster player, global player and guild are sorted
\* strictly ascending by date, no two points of one series carrying the
\* same date.
C16_PointsUniqueByDate ==
  pc = "done" =>
    /\ \A i \in DOMAIN result.players : StrictlyAscendingDates(result.players[i].points)
    /\ \A i \in DOMAIN result.globalPlayers :
         StrictlyAscendingDates(result.globalPlayers[i].points)
    /\ \A g \in DOMAIN result.guilds : StrictlyAscendingDates(result.guilds[g].points)

\* the input cut down to the snapshots scanned up to the date
PrefixInput(date) ==
  [input EXCEPT !.snapshots = SelectSeq(input.snapshots, LAMBDA s : s.scannedAt <= date)]

\* every timeline entry of the date, of a player of the list, carries the
\* 3-month score that the player has in the list computed from the prefix
TimelineAgreesWith(list, prefixList, date) ==
  \A i \in DOMAIN list : \A j \in DOMAIN prefixList :
     list[i].playerKey = prefixList[j].playerKey =>
       \A k \in DOMAIN list[i].scoreTimeline :
          list[i].scoreTimeline[k].date = date =>
            list[i].scoreTimeline[k].score = prefixList[j].scoreByWindow[DEFAULT_SCORE_WINDOW]

TimelineIsBacktestAt(prefixResult, date) ==
  /\ TimelineAgreesWith(result.players, prefixResult.players, date)
  /\ TimelineAgreesWith(result.globalPlayers, prefixResult.globalPlayers, date)

\* one entry per point, with the point's date
TimelineShape(player) ==
  /\ Len(player.scoreTimeline) = Len(player.points)
  /\ \A k \in DOMAIN player.points : player.scoreTimeline[k].date = player.points[k].date
  /\ \A k \in 1..(Len(player.points) - 1) :
       player.scoreTimeline[k].date <= player.scoreTimeline[k + 1].date

\* C17 (refuted: the entries of earlier dates are scored against the
\* baselines of the whole dataset): scoreTimeline has one entry per point,
\* in ascending date order, and the entry of a date carries the 3-month
\* score that computeDataset gives the player on the snapshots up to that
\* date.
C17_TimelineIsBacktest ==
  pc = "done" =>
    /\ \A i \in DOMAIN AllPlayers : TimelineShape(AllPlayers[i])
    /\ \A date \in Range(SnapshotDates) :
         TimelineIsBacktestAt(computeDataset(PrefixInput(date)), date)

\* the input index of the j-th oldest snapshot (of equal scannedAt, the
\* one given first is the older)
InputIndexOfRank(j) ==
  CHOOSE i \in DOMAIN input.snapshots :
    Cardinality({m \in DOMAIN input.snapshots :
                   \/ input.snapshots[m].scannedAt < input.snapshots[i].scannedAt
                   \/ /\ input.snapshots[m].scannedAt = input.snapshots[i].scannedAt
                      /\ m < i}) = j - 1

\* the summary carries id, label and date of the manifest entry at the
\* input index (the snapshot's scannedAt where the manifest has no entry)
SummaryOfIndex(summary, i) ==
  IF i \in DOMAIN input.manifestSnapshots
  THEN /\ summary.id = input.manifestSnapshots[i].id
       /\ summary.label = input.manifestSnapshots[i].label
       /\ summary.date = input.manifestSnapshots[i].date
  ELSE /\ summary.id = input.snapshots[i].scannedAt
       /\ summary.label = input.snapshots[i].scannedAt
       /\ summary.date = input.snapshots[i].scannedAt

ScannedAtSet == {input.snapshots[i].scannedAt : i \in DOMAIN input.snapshots}

\* C18: for snapshots given in any order, the j-th snapshot summary carries
\* the id, label and date of the manifest entry at the input index of the
\* j-th oldest snapshot, the points of every player and guild follow each
\* other in ascending scannedAt order, and rangeStart and latestDate are
\* the earliest and the latest scannedAt.
C18_SortKeepsManifest ==
  pc = "done" =>
    /\ Len(result.snapshots) = Len(input.snapshots)
    /\ \A j \in DOMAIN result.snapshots :
         SummaryOfIndex(result.snapshots[j], InputIndexOfRank(j))
    /\ \A i \in DOMAIN AllPlayers :
         \A k \in 1..(Len(AllPlayers[i].points) - 1) :
            AllPlayers[i].points[k].date <= AllPlayers[i].points[k + 1].date
    /\ \A g \in DOMAIN result.guilds :
         \A k \in 1..(Len(result.guilds[g].points) - 1) :
            result.guilds[g].points[k].date <= result.guilds[g].points[k + 1].date
    /\ Len(input.snapshots) > 0 =>
         /\ result.rangeStart \in ScannedAtSet
         /\ result.latestDate \in ScannedAtSet
         /\ \A d \in ScannedAtSet : result.rangeStart <= d /\ d <= result.latestDate

\* three or more snapshots given newest first: the first summary carries
\* the last manifest entry
C18_Witness ==
  /\ pc = "done"
  /\ Len(input.snapshots) >= 3
  /\ \A i \in 1..(Len(input.snapshots) - 1) :
       input.snapshots[i].scannedAt > input.snapshots[i + 1].scannedAt
  /\ result.snapshots[1].id = input.manifestSnapshots[Len(input.snapshots)].id
  /\ result.snapshots[1].id # input.manifestSnapshots[1].id
  /\ result.rangeStart = input.snapshots[Len(input.snapshots)].scannedAt

TotalDaysOf(intervals) == SumSeq([i \in DOMAIN intervals |-> intervals[i].days])

\* the weighted-per-day figure of the player's metric is the sum of the
\* interval deltas over the sum of the interval days, the rise from the
\* first to the last point over the sum of the interval days, the perDay of
\* the only interval of a player with two points, and 0 without intervals
WeightedPerDayOk(player, metric, intervals) ==
  /\ Len(intervals) = Len(player.points) - 1
  /\ Len(intervals) = 0 => player.perDayYear[metric] = QZero
  /\ Len(intervals) > 0 =>
       /\ player.perDayYear[metric]
            = QDiv(QSum([i \in DOMAIN intervals |-> intervals[i].delta]),
                   QInt(TotalDaysOf(intervals)))
       /\ player.perDayYear[metric]
            = QDiv(QInt(player.points[Len(player.points)][metric] - player.points[1][metric]),
                   QInt(TotalDaysOf(intervals)))
  /\ Len(player.points) = 2 => player.perDayYear[metric] = intervals[1].perDay

\* C20: for every player and metric the weighted-per-day aggregate is
\* (sum of interval deltas) / (sum of interval days), 0 without intervals,
\* hence (last value - first value) / (sum of interval days), and the
\* perDay of the single interval of a player with two points.
C20_WeightedPerDay ==
  pc = "done" =>
    \A i \in DOMAIN AllPlayers : \A m \in DOMAIN METRIC_KEYS :
       WeightedPerDayOk(AllPlayers[i], METRIC_KEYS[m], AllPlayers[i].intervals[METRIC_KEYS[m]])

\* a player with two intervals of different lengths and different paces,
\* and a player with two points and a positive pace
C20_Witness ==
  /\ pc = "done"
  /\ \E i \in DOMAIN result.players :
       /\ Len(result.players[i].intervals.baseStats) = 2
       /\ result.players[i].intervals.baseStats[1].days
            # result.players[i].intervals.baseStats[2].days
       /\ result.players[i].intervals.baseStats[1].perDay
            # result.players[i].intervals.baseStats[2].perDay
       /\ QLt(QZero, result.players[i].perDayYear.baseStats)
  /\ \E i \in DOMAIN result.players :
       /\ Len(result.players[i].points) = 2
       /\ QLt(QZero, result.players[i].perDayYear.baseStats)

(***************************************************************************)
(* Non-finite numbers.  A JavaScript number is a finite rational, NaN,     *)
(* Infinity or -Infinity; the arithmetic below is that of IEEE 754 on      *)
(* these classes (no rounding, no signed zero).  Member stats reach the    *)
(* points as they are given (computeDataset copies member.baseStats,       *)
(* member.level, ... into the point), so the interval builders and the     *)
(* level part of computeScoreForWindow are restated here over such         *)
(* numbers.                                                                *)
(***************************************************************************)
FNum(q) == [cls |-> "num", q |-> q]
NaN == [cls |-> "nan", q |-> QZero]
Infinity == [cls |-> "inf", q |-> QZero]
NegInfinity == [cls |-> "ninf", q |-> QZero]

\* Number.isFinite
isFinite(x) == x.cls = "num"

FSign(x) ==
  IF x.cls = "inf" THEN 1
  ELSE IF x.cls = "ninf" THEN -1
  ELSE IF x.q.n > 0 THEN 1 ELSE IF x.q.n < 0 THEN -1 ELSE 0

FInf(sign) == IF sign > 0 THEN Infinity ELSE NegInfinity

FNeg(x) ==
  IF x.cls = "num" THEN FNum(QNeg(x.q))
  ELSE IF x.cls = "inf" THEN NegInfinity
  ELSE IF x.cls = "ninf" THEN Infinity
  ELSE NaN

FAdd(a, b) ==
  IF a.cls = "nan" \/ b.cls = "nan" THEN NaN
  ELSE IF a.cls = "num" /\ b.cls = "num" THEN FNum(QAdd(a.q, b.q))
  ELSE IF a.cls = "num" THEN b
  ELSE IF b.cls = "num" THEN a
  ELSE IF a.cls = b.cls THEN a
  ELSE NaN

FSub(a, b) == FAdd(a, FNeg(b))

FMul(a, b) ==
  IF a.cls = "nan" \/ b.cls = "nan" THEN NaN
  ELSE IF a.cls = "num" /\ b.cls = "num" THEN FNum(QMul(a.q, b.q))
  ELSE IF FSign(a) = 0 \/ FSign(b) = 0 THEN NaN
  ELSE FInf(FSign(a) * FSign(b))

FDiv(a, b) ==
  IF a.cls = "nan" \/ b.cls = "nan" THEN NaN
  ELSE IF a.cls = "num" /\ b.cls = "num"
  THEN IF b.q.n # 0 THEN FNum(QDiv(a.q, b.q))
       ELSE IF a.q.n = 0 THEN NaN ELSE FInf(FSign(a))
  ELSE IF a.cls = "num" THEN FNum(QZero)
  ELSE IF b.cls = "num" THEN FInf(IF FSign(b) < 0 THEN -FSign(a) ELSE FSign(a))
  ELSE NaN

\* a < b: false when either is NaN
FLt(a, b) ==
  /\ a.cls # "nan"
  /\ b.cls # "nan"
  /\ IF a.cls = "num" /\ b.cls = "num" THEN QLt(a.q, b.q)
     ELSE IF a.cls = "num" THEN b.cls = "inf"
     ELSE IF b.cls = "num" THEN a.cls = "ninf"
     ELSE a.cls = "ninf" /\ b.cls = "inf"

\* Math.max and Math.min: NaN when either argument is NaN
MathMax(a, b) ==
  IF a.cls = "nan" \/ b.cls = "nan" THEN NaN ELSE IF FLt(a, b) THEN b ELSE a

MathMin(a, b) ==
  IF a.cls = "nan" \/ b.cls = "nan" THEN NaN ELSE IF FLt(b, a) THEN b ELSE a

FInt(k) == FNum(QInt(k))

clampNumber(value, min, max) == MathMin(max, MathMax(min, value))

\* one interval of buildIntervals, and buildWindowMetric: delta and perDay
\* are computed from the selected values without a test of finiteness
intervalNumber(start, end, metric) ==
  [startDate |-> start.date,
   endDate |-> end.date,
   days |-> diffDays(start.date, end.date),
   delta |-> FSub(end[metric], start[metric]),
   perDay |-> FDiv(FSub(end[metric], start[metric]), FInt(diffDays(start.date, end.date)))]

buildIntervalsNumber(points, metric) ==
  Array([index \in 1..(Len(points) - 1) |->
           intervalNumber(points[index], points[index + 1], metric)])

\* levelPer30 of a window that holds all the points: null (<<>>) when the
\* level intervals have no days
levelPer30Number(points, levelWindowDays) ==
  IF levelWindowDays > 0
  THEN <<FMul(FDiv(MathMax(FInt(0), FSub(points[Len(points)].level, points[1].level)),
                   FInt(levelWindowDays)),
              FInt(30))>>
  ELSE <<>>

levelPenaltyNumber(levelPer30) ==
  IF Len(levelPer30) > 0
  THEN clampNumber(FDiv(FSub(FInt(3), levelPer30[1]), FInt(3)), FInt(0), FInt(1))
  ELSE FInt(0)

\* score = clamp(scoreWithCoverage * (1 - 0.15 * levelPenalty), 0, 1)
scoreNumber(scoreWithCoverage, levelPenalty) ==
  clampNumber(FMul(scoreWithCoverage,
                   FSub(FInt(1), FMul(FNum(Q(15, 100)), levelPenalty))),
              FInt(0), FInt(1))

LevelResult(intervals, levelIntervals, levelPer30, scoreWithCoverage) ==
  [intervals |-> intervals,
   levelIntervals |-> levelIntervals,
   levelPer30 |-> levelPer30,
   lowLeveling |-> IF Len(levelPer30) > 0 THEN FLt(levelPer30[1], FInt(3)) ELSE FALSE,
   levelPenalty |-> levelPenaltyNumber(levelPer30),
   score |-> scoreNumber(scoreWithCoverage, levelPenaltyNumber(levelPer30))]

\* the intervals, the level part and the final score of a player whose
\* points all lie in the score window
scoreOfNumbers(points, scoreWithCoverage) ==
  LevelResult(buildIntervalsNumber(points, "baseStats"),
              buildIntervalsNumber(points, "level"),
              levelPer30Number(points, TotalDaysOf(buildIntervalsNumber(points, "level"))),
              scoreWithCoverage)

(***************************************************************************)
(* Specification: two points of one player, a day or a month apart, with   *)
(* finite and non-finite base stats and levels, and a finite               *)
(* scoreWithCoverage.                                                      *)
(***************************************************************************)
NumberValues == {FInt(0), FInt(3), FInt(400), NaN, Infinity, NegInfinity}
NumberGaps == {TicksPerDay, 30 * TicksPerDay}
NumberCoverageScores == {FNum(Q(1, 2)), FInt(1)}

NumberPoint(date, baseStats, level) ==
  [date |-> date, baseStats |-> baseStats, level |-> level]

NumberInputs ==
  {[points |-> <<NumberPoint(0, b1, l1), NumberPoint(gap, b2, l2)>>, scoreWithCoverage |-> s] :
     b1 \in NumberValues, b2 \in NumberValues, l1 \in NumberValues, l2 \in NumberValues,
     gap \in NumberGaps, s \in NumberCoverageScores}

NumberInit ==
  /\ pc = "start"
  /\ input \in NumberInputs
  /\ result = <<>>
  /\ NoWorker /\ NoStore

NumberScore ==
  /\ pc = "start"
  /\ result' = scoreOfNumbers(input.points, input.scoreWithCoverage)
  /\ pc' = "done"
  /\ UNCHANGED <<input, workerVars, storeVars>>

NumberNext == NumberScore

SpecNumber == NumberInit /\ [][NumberNext]_vars

AllFinite(intervals) ==
  \A i \in DOMAIN intervals : isFinite(intervals[i].delta) /\ isFinite(intervals[i].perDay)

\* C19 (refuted by a NaN or infinite base stat or level): whatever the
\* member stats, no interval delta or perDay, no levelPer30 and no score is
\* NaN or infinite.
C19_NonFiniteDegrades ==
  pc = "done" =>
    /\ AllFinite(result.intervals)
    /\ AllFinite(result.levelIntervals)
    /\ Len(result.levelPer30) > 0 => isFinite(result.levelPer30[1])
    /\ isFinite(result.score)

(***************************************************************************)
(* Growth references, consistency, custom groups, the two populations and  *)
(* the last timeline entry.                                                *)
(***************************************************************************)
\* the members of the group whose absolute pace in the window is positive
PositiveMembers(members, w) ==
  {i \in members : QLt(QZero, result.globalPlayers[i].scoreMeta[w].scoreDebug.absPerDay)}

\* the sampled members of the group that is the player's reference
ReferenceMembers(debug, customKeys, realKeys) ==
  IF debug.guildRefType = "custom" THEN MembersAmong(customKeys, debug.guildRefKey)
  ELSE IF debug.guildRefType = "real" THEN MembersAmong(realKeys, debug.guildRefKey)
  ELSE {}

PositiveReferences(w, customKeys, realKeys) ==
  \A i \in DOMAIN AllPlayers :
     AllPlayers[i].scoreMeta[w].scoreDebug.guildRefType # "none" =>
       Cardinality(PositiveMembers(
         ReferenceMembers(AllPlayers[i].scoreMeta[w].scoreDebug, customKeys, realKeys), w)) >= 2

\* C23 (refuted by a guild of one growing and one idle member): a real
\* guild or custom group is the reference of a player only if at least two
\* of its sampled members have a positive absolute pace in the window.
C23_TwoPositiveMembers ==
  pc = "done" =>
    \A w \in Range(WINDOW_KEYS) :
       PositiveReferences(w, CustomKeysOfAll, RealKeysAt(resolveWindowMeta(SnapshotDates, w)))

\* the player's realized base-stat intervals that the consistency part
\* rates in the window
RatedIntervals(player, meta) ==
  SelectSeq(player.intervals.baseStats, LAMBDA iv : inScoreWindow(iv, meta) /\ iv.days > 0)

\* no player of the server has a positive pace over the same start|end
\* interval: the server average of that interval is missing or not positive
NoServerBaseline(server, interval) ==
  \A j \in DOMAIN result.globalPlayers :
     result.globalPlayers[j].server = server =>
       \A k \in DOMAIN result.globalPlayers[j].intervals.baseStats :
          buildIntervalKey(result.globalPlayers[j].intervals.baseStats[k])
              = buildIntervalKey(interval)
            => QLe(result.globalPlayers[j].intervals.baseStats[k].perDay, QZero)

UnratedAtMinimum(player, ratios, rated) ==
  /\ Len(ratios) = Len(rated)
  /\ \A k \in DOMAIN rated :
       NoServerBaseline(player.server, rated[k]) => ratios[k] = CONSISTENCY_RATIO_MIN

UnratedAtMinimumIn(w, meta) ==
  \A i \in DOMAIN AllPlayers :
     UnratedAtMinimum(AllPlayers[i], AllPlayers[i].scoreMeta[w].scoreDebug.ratios,
                      RatedIntervals(AllPlayers[i], meta))

\* C24 (refuted by a server on which nobody grows over an interval): the
\* ratio of a realized interval without a positive server average is 0
\* before the clamp, hence 0.5 after it, below 1 and outside aboveShare.
C24_NoBaselineRatio ==
  pc = "done" =>
    \A w \in Range(WINDOW_KEYS) : UnratedAtMinimumIn(w, resolveWindowMeta(SnapshotDates, w))

\* what ranks a player: the scores, the timeline, the rank and the tier
RankingOf(list) ==
  Array([i \in DOMAIN list |->
           [playerKey |-> list[i].playerKey,
            scoreByWindow |-> list[i].scoreByWindow,
            score |-> list[i].score,
            scoreTimeline |-> list[i].scoreTimeline,
            rank |-> list[i].rank,
            recommendation |-> list[i].recommendation]])

RankingView(dataset) ==
  [players |-> RankingOf(dataset.players),
   globalPlayers |-> RankingOf(dataset.globalPlayers),
   recommendations |-> dataset.recommendations]

\* other values of the memberlistColumns option: none, and another grouping
CustomAlternatives ==
  {<<>>,
   <<[columnKey |-> "col-2", playerKeys |-> <<"b", "d">>],
     [columnKey |-> "col-4", playerKeys |-> <<"a", "c">>]>>}

WithColumns(columns) == computeDataset([input EXCEPT !.memberlistColumns = columns])

\* the guild references of the roster players in the 3-month window
GuildRefsOf(dataset) ==
  Array([i \in DOMAIN dataset.players |->
           <<dataset.players[i].scoreMeta[DEFAULT_SCORE_WINDOW].scoreDebug.guildRefType,
             dataset.players[i].scoreMeta[DEFAULT_SCORE_WINDOW].scoreDebug.absVsGuild>>])

\* C25: a run with custom columns and a run on the same snapshots and
\* filter with other columns (or none) give every player the same
\* scoreByWindow, score, scoreTimeline, rank and recommendation, in the
\* same order, and the same recommendations lists.
C25_CustomGroupsDoNotRank ==
  (pc = "done" /\ Len(input.memberlistColumns) > 0) =>
    \A columns \in CustomAlternatives : RankingView(result) = RankingView(WithColumns(columns))

\* a run whose custom columns change the guild reference and the ratio to
\* it of some roster player, for players with different scores
C25_Witness ==
  /\ pc = "done"
  /\ Len(input.memberlistColumns) > 0
  /\ \A columns \in CustomAlternatives : GuildRefsOf(result) # GuildRefsOf(WithColumns(columns))
  /\ \E i, j \in DOMAIN result.players : result.players[i].score # result.players[j].score

\* the entry of the roster player and the entry of the same key in
\* globalPlayers carry the same series and the same scores
SameSeries(player, other) ==
  /\ player.points = other.points
  /\ player.intervals = other.intervals
  /\ player.windowMetrics = other.windowMetrics
  /\ player.scoreByWindow = other.scoreByWindow

\* C26 (refuted by a roster player pushed more than once per snapshot):
\* every key of players[] occurs in globalPlayers[], and the two entries of
\* a key have the same points, intervals, window metrics and scoreByWindow.
C26_PopulationsAgree ==
  pc = "done" =>
    \A i \in DOMAIN result.players :
       /\ \E j \in DOMAIN result.globalPlayers :
            result.globalPlayers[j].playerKey = result.players[i].playerKey
       /\ \A j \in DOMAIN result.globalPlayers :
            result.globalPlayers[j].playerKey = result.players[i].playerKey
              => SameSeries(result.players[i], result.globalPlayers[j])

DistinctSnapshotDates == Cardinality(ScannedAtSet) = Len(input.snapshots)

InEverySnapshot(player) ==
  \A d \in ScannedAtSet : \E k \in DOMAIN player.points : player.points[k].date = d

LastEntry(player) == player.scoreTimeline[Len(player.scoreTimeline)]

\* C27: when the snapshot dates are distinct, the last scoreTimeline entry
\* of a player with a point in every snapshot has the date of the latest
\* snapshot and the player's 3-month score, which is player.score.
C27_LastEntryIsScore ==
  (pc = "done" /\ DistinctSnapshotDates) =>
    \A i \in DOMAIN AllPlayers :
       InEverySnapshot(AllPlayers[i]) =>
         /\ Len(AllPlayers[i].scoreTimeline) > 0
         /\ LastEntry(AllPlayers[i]).date = result.latestDate
         /\ LastEntry(AllPlayers[i]).score = AllPlayers[i].scoreByWindow[DEFAULT_SCORE_WINDOW]
         /\ LastEntry(AllPlayers[i]).score = AllPlayers[i].score


(***************************************************************************)
(* The scan worker (src/unnamed/part_014).                                 *)
(*                                                                         *)
(* One Worker object runs one instance of the module: repoCache is its     *)
(* module variable, posted the messages it has posted so far, in order,    *)
(* fetched the fetches that have settled, with their outcome, and received *)
(* the number of compute-save-index messages it has taken.                 *)
(* The store creates a worker and posts one process-manifest or            *)
(* process-repo-scans request to it at once (part_009:378-388, 403-413),   *)
(* and afterwards any number of compute-save-index requests                *)
(* (part_009:415-426): input is the first request, pc the position of its  *)
(* handler ("idle": the message is queued, "fetching": the handler is      *)
(* suspended at await fetchJson, "done": it has returned) and locals the   *)
(* local variables of the suspended handler.  A handler runs from one      *)
(* await to the next without interruption; while it is suspended the       *)
(* worker takes the next message of its queue.  The awaits inside          *)
(* fetchJson touch no shared state and are one step.                       *)
(*                                                                         *)
(* An identifier, a label and a path are numbers (1000 + i, 2000 + i,      *)
(* 3000 + i for source i); a text built from parts is the record or the    *)
(* tuple of its parts.                                                     *)
(***************************************************************************)
MaxScans == 2
MaxSaveIndexRequests == 1

\* the ascending subsequence of s at the positions S
Pick(s, S) ==
  LET upTo[i \in 0..Len(s)] ==
        IF i = 0 THEN <<>>
        ELSE IF i \in S THEN Append(upTo[i - 1], s[i]) ELSE upTo[i - 1]
  IN upTo[Len(s)]

scanSources ==
  Array([i \in 1..MaxScans |-> [id |-> 1000 + i, label |-> 2000 + i, path |-> 3000 + i]])

\* the scan files of the repository, listed newest first: the file at a
\* path as mapSfScanJson and mappedScanToNormalized read it
WkProfile == CHOOSE profile \in DsProfiles : profile[1].inc = 3
WkSchedule == Array([k \in 1..(MaxScans - 1) |-> 3])
ScanFile(path) == DsSnapshot(MaxScans + 1 - (path - 3000), WkSchedule, WkProfile, "joinLeave")

\* scannedAt.slice(0, 10): the day of an ISO date
DayOf(scannedAt) == scannedAt \div TicksPerDay

\* the save array of a player, cut to two slots
SaveOf(member) == <<member.level, member.mine>>

postProgress(message) == [type |-> "progress", message |-> message]

buildScanLoadError(meta, status, contentType, reason) ==
  [id |-> meta.id, label |-> meta.label, path |-> meta.path, url |-> <<"baseUrl", meta.path>>,
   status |-> status, contentType |-> contentType, reason |-> reason]

\* what fetchJson throws for a fetch that does not return JSON
FetchOutcomes == {"ok", "Request failed", "Network error"}
fetchJsonError(meta, outcome) ==
  IF outcome = "Network error" THEN buildScanLoadError(meta, 0, <<>>, outcome)
  ELSE buildScanLoadError(meta, 404, <<"text/html">>, outcome)

formatScanLoadError(error) ==
  [label |-> error.label, id |-> error.id, reason |-> error.reason,
   status |-> IF error.status # 0 THEN <<"HTTP", error.status>> ELSE <<"Request failed">>,
   contentType |-> IF Len(error.contentType) = 0 THEN "unknown" ELSE error.contentType[1],
   url |-> error.url]

getLatestSnapshot(snapshots) ==
  LET latest[i \in 1..Len(snapshots)] ==
        IF i = 1 THEN 1
        ELSE IF snapshots[i].scannedAt > snapshots[latest[i - 1]].scannedAt THEN i
        ELSE latest[i - 1]
  IN IF Len(snapshots) = 0 THEN <<>> ELSE <<snapshots[latest[Len(snapshots)]]>>

buildGuildRoster(snapshot) ==
  IF Len(snapshot) = 0 THEN <<>>
  ELSE Array([g \in DOMAIN snapshot[1].guilds |->
                [guildKey |-> snapshot[1].guilds[g].guildKey,
                 memberCount |-> Len(snapshot[1].guilds[g].members)]])

buildLatestPlayers(snapshot) ==
  IF Len(snapshot) = 0 THEN <<>>
  ELSE ConcatAll(Array([g \in DOMAIN snapshot[1].guilds |->
         Array([k \in DOMAIN snapshot[1].guilds[g].members |->
                  [playerKey |-> snapshot[1].guilds[g].members[k].playerKey,
                   server |-> snapshot[1].guilds[g].members[k].server,
                   guildKey |-> snapshot[1].guilds[g].guildKey]])]))

\* [...roster].sort((a, b) => b.memberCount - a.memberCount).slice(0, 2)
\*   .map((entry) => entry.guildKey): the sort is stable, so an entry comes
\* behind the entries with more members and the earlier ones with as many
DefaultPosition(roster, i) ==
  1 + Cardinality({j \in DOMAIN roster :
                     \/ roster[j].memberCount > roster[i].memberCount
                     \/ j < i /\ roster[j].memberCount = roster[i].memberCount})

resolveDefaultGuilds(roster) ==
  Array([p \in 1..Min(2, Len(roster)) |->
           roster[CHOOSE i \in DOMAIN roster : DefaultPosition(roster, i) = p].guildKey])

buildRepoCache(scan) ==
  [scannedAt |-> scan.scannedAt,
   players |-> ConcatAll(Array([g \in DOMAIN scan.guilds |->
                 Array([k \in DOMAIN scan.guilds[g].members |->
                          [playerKey |-> scan.guilds[g].members[k].playerKey,
                           guildKey |-> scan.guilds[g].guildKey,
                           save |-> SaveOf(scan.guilds[g].members[k])]])])),
   guilds |-> buildGuildRoster(<<scan>>)]

manifestFromRepoScans(sources, normalized) ==
  Array([index \in DOMAIN normalized |->
           [id |-> IF index \in DOMAIN sources THEN sources[index].id ELSE index,
            label |-> IF index \in DOMAIN sources THEN sources[index].label ELSE index,
            date |-> DayOf(normalized[index].scannedAt),
            path |-> IF index \in DOMAIN sources THEN sources[index].path ELSE 0]])

getSaveIndexValue(save, index) == IF index + 1 \in DOMAIN save THEN save[index + 1] ELSE 0

\* guildFilterKeys?.length ? new Set(guildFilterKeys) : null, then
\* filter && !filter.has(key)
PassesFilter(guildFilterKeys, key) ==
  Len(guildFilterKeys) = 0 \/ \E i \in DOMAIN guildFilterKeys : guildFilterKeys[i] = key

\* the players of one cached snapshot that pass the filter, with the value
\* of the save index
SaveIndexPushes(snapshot, index, guildFilterKeys) ==
  LET kept == SelectSeq(snapshot.players,
                        LAMBDA player : PassesFilter(guildFilterKeys, player.guildKey))
  IN Array([k \in DOMAIN kept |->
              [playerKey |-> kept[k].playerKey, guildKey |-> kept[k].guildKey,
               date |-> snapshot.scannedAt,
               value |-> getSaveIndexValue(kept[k].save, index)]])

\* the guilds of one cached snapshot that pass the filter, with the median
\* of their players' values
SaveIndexGuildPushes(snapshot, index, guildFilterKeys) ==
  LET kept == SelectSeq(snapshot.guilds,
                        LAMBDA guild : PassesFilter(guildFilterKeys, guild.guildKey))
      pushes == SaveIndexPushes(snapshot, index, guildFilterKeys)
  IN Array([g \in DOMAIN kept |->
              [guildKey |-> kept[g].guildKey, date |-> snapshot.scannedAt,
               value |-> median(QColumn(SelectSeq(pushes,
                           LAMBDA push : push.guildKey = kept[g].guildKey), "value"))]])

\* a Map of series filled push by push: the entry of a key holds the data
\* of its first push and a point per push
SeriesOfPushes(pushes, keyField) ==
  LET keys == KeyOrder(Column(pushes, keyField))
  IN Array([e \in DOMAIN keys |->
       LET own == SelectSeq(pushes, LAMBDA push : push[keyField] = keys[e])
       IN [key |-> keys[e], guildKey |-> own[1].guildKey,
           points |-> Array([p \in DOMAIN own |->
                               [date |-> own[p].date, value |-> own[p].value]])]])

computeSaveIndexResult(index, guildFilterKeys, cache) ==
  LET snapshotsSorted == SortByField(Array(cache), "scannedAt")
  IN [index |-> index,
      rangeStart |-> IF Len(cache) = 0 THEN NoDate ELSE snapshotsSorted[1].scannedAt,
      latestDate |-> IF Len(cache) = 0 THEN NoDate
                     ELSE snapshotsSorted[Len(snapshotsSorted)].scannedAt,
      players |-> SeriesOfPushes(ConcatAll(Array([s \in DOMAIN snapshotsSorted |->
                    SaveIndexPushes(snapshotsSorted[s], index, guildFilterKeys)])),
                    "playerKey"),
      guilds |-> SeriesOfPushes(ConcatAll(Array([s \in DOMAIN snapshotsSorted |->
                   SaveIndexGuildPushes(snapshotsSorted[s], index, guildFilterKeys)])),
                   "guildKey")]

\* the payload of a result message: the WorkerResult is kept as the
\* arguments of the computeDataset call that yields it (dataset), with the
\* three fields the handler sets on it
ResultPayload(normalized, manifestSnapshots, request) ==
  [dataset |-> [snapshots |-> normalized,
                manifestSnapshots |-> manifestSnapshots,
                guildFilterKeys |-> request.guildFilterKeys,
                memberlistColumns |-> request.memberlistColumns],
   guildRoster |-> buildGuildRoster(getLatestSnapshot(normalized)),
   defaultGuildKeys |-> resolveDefaultGuilds(buildGuildRoster(getLatestSnapshot(normalized))),
   latestPlayers |-> buildLatestPlayers(getLatestSnapshot(normalized))]

\* the WorkerResult of a result message
WorkerResultOf(message) == computeDataset(message.payload.dataset)

selectedSourcesOf(request) ==
  SelectSeq(request.scanSources,
            LAMBDA source : \E i \in DOMAIN request.selectedScanIds :
                               request.selectedScanIds[i] = source.id)

\* the local variables of a handler that starts its fetch loop
LoopStart == [index |-> 1, normalized |-> <<>>, loadedSources |-> <<>>, errors |-> <<>>]

(***************************************************************************)
(* process-repo-scans (part_014:464-542)                                   *)
(***************************************************************************)
\* the catch clause of onmessage, for an Error and for a ScanLoadError
CaughtError(text, detail) ==
  [type |-> "error", error |-> [text |-> text, detail |-> detail], errors |-> <<>>]
CaughtScanLoadError(error) ==
  [type |-> "error", error |-> [text |-> "", detail |-> <<formatScanLoadError(error)>>],
   errors |-> <<error>>]

\* the handler up to its first await: the messages it posts
RepoScansStart(request) ==
  IF Len(selectedSourcesOf(request)) = 0
  THEN <<CaughtError("No scan sources selected.", <<>>)>>
  ELSE <<postProgress(<<"Loading repo scans...">>),
         postProgress(<<"Fetching", selectedSourcesOf(request)[1].label>>)>>

\* the body of the loop after the fetch of source st.index has settled
RepoScanSettled_abortsRequest(request, st, outcome) ==
  IF outcome = "ok"
  THEN [st EXCEPT !.normalized = Append(@, ScanFile(selectedSourcesOf(request)[st.index].path)),
                  !.loadedSources = Append(@, selectedSourcesOf(request)[st.index])]
  ELSE [st EXCEPT !.normalized = <<>>, !.loadedSources = <<>>,
                  !.index = Len(selectedSourcesOf(request)),
                  !.errors = <<fetchJsonError(selectedSourcesOf(request)[st.index], outcome)>>]

RepoScanSettled(request, st, outcome) ==
  IF outcome = "ok"
  THEN [st EXCEPT !.normalized = Append(@, ScanFile(selectedSourcesOf(request)[st.index].path)),
                  !.loadedSources = Append(@, selectedSourcesOf(request)[st.index])]
  ELSE [st EXCEPT !.errors = Append(@, fetchJsonError(selectedSourcesOf(request)[st.index],
                                                      outcome))]

\* the handler after its loop
RepoScansFinish(request, st) ==
  IF Len(st.normalized) = 0
  THEN <<[type |-> "error",
          error |-> [text |-> "All selected scans failed to load.",
                     detail |-> IF Len(st.errors) > 0
                                THEN <<formatScanLoadError(st.errors[1])>> ELSE <<>>],
          errors |-> st.errors]>>
  ELSE <<postProgress(<<"Computing metrics...">>),
         [type |-> "result", datasetId |-> request.datasetId,
          payload |-> ResultPayload(st.normalized,
                                    manifestFromRepoScans(st.loadedSources, st.normalized),
                                    request),
          errors |-> st.errors]>>

\* what the handler posts after a settled fetch, up to its next await
RepoScansResume(request, after) ==
  IF after.index < Len(selectedSourcesOf(request))
  THEN <<postProgress(<<"Fetching", selectedSourcesOf(request)[after.index + 1].label>>)>>
  ELSE RepoScansFinish(request, after)

(***************************************************************************)
(* process-manifest (part_014:423-462)                                     *)
(***************************************************************************)
\* getAdapter(format) of data/normalization: the formats with an adapter
AdapterFormats == {"normalized"}

ManifestFinish(request, st) ==
  <<postProgress(<<"Computing metrics...">>),
    [type |-> "result", datasetId |-> request.datasetId,
     payload |-> ResultPayload(st.normalized, request.snapshots, request)]>>

\* the handler up to its first await, or to its end for an empty manifest
ManifestStart(request) ==
  IF request.format \notin AdapterFormats
  THEN <<CaughtError("No adapter found for format", <<request.format>>)>>
  ELSE <<postProgress(<<"Loading snapshots...">>)>>
       \o IF Len(request.snapshots) > 0
          THEN <<postProgress(<<"Fetching", request.snapshots[1].label>>)>>
          ELSE ManifestFinish(request, LoopStart)

ManifestSettled(request, st, outcome) ==
  [st EXCEPT !.normalized = Append(@, ScanFile(request.snapshots[st.index].path))]

\* a rejected fetch that no catch clause handles: nothing is posted
ManifestResume_unhandled(request, st, outcome) ==
  IF outcome # "ok" THEN <<>>
  ELSE IF st.index < Len(request.snapshots)
  THEN <<postProgress(<<"Fetching", request.snapshots[st.index + 1].label>>)>>
  ELSE ManifestFinish(request, ManifestSettled(request, st, outcome))

ManifestResume(request, st, outcome) ==
  IF outcome # "ok"
  THEN <<CaughtScanLoadError(fetchJsonError(request.snapshots[st.index], outcome))>>
  ELSE IF st.index < Len(request.snapshots)
  THEN <<postProgress(<<"Fetching", request.snapshots[st.index + 1].label>>)>>
  ELSE ManifestFinish(request, ManifestSettled(request, st, outcome))

(***************************************************************************)
(* Specification of one worker                                             *)
(***************************************************************************)
WkFilters == {<<>>, <<"g1">>}

RepoScansRequest(selectedScanIds, guildFilterKeys) ==
  [type |-> "process-repo-scans", datasetId |-> "repo-scans", scanSources |-> scanSources,
   selectedScanIds |-> selectedScanIds, guildFilterKeys |-> guildFilterKeys,
   memberlistColumns |-> <<>>]

\* the manifest entries of a manifest dataset
ManifestEntry(i) ==
  [id |-> 1000 + i, label |-> 2000 + i, date |-> DayOf(ScanFile(3000 + i).scannedAt),
   path |-> 3000 + i]

ManifestRequest(n, format, guildFilterKeys) ==
  [type |-> "process-manifest", datasetId |-> "manifest", format |-> format,
   snapshots |-> Array([i \in 1..n |-> ManifestEntry(i)]),
   guildFilterKeys |-> guildFilterKeys, memberlistColumns |-> <<>>]

WorkerRequests ==
  {RepoScansRequest(Pick(Column(scanSources, "id"), S), keys) :
     S \in SUBSET (1..MaxScans), keys \in WkFilters}
    \cup {ManifestRequest(n, format, <<>>) :
            n \in 0..MaxScans, format \in {"normalized", "csv"}}

WorkerInit ==
  /\ pc = "idle"
  /\ input \in WorkerRequests
  /\ result = <<>>
  /\ NoWorker /\ NoStore

OnProcessRepoScans ==
  /\ pc = "idle"
  /\ input.type = "process-repo-scans"
  /\ posted' = posted \o RepoScansStart(input)
  /\ IF Len(selectedSourcesOf(input)) = 0
     THEN pc' = "done" /\ UNCHANGED <<repoCache, locals>>
     ELSE pc' = "fetching" /\ repoCache' = <<>> /\ locals' = LoopStart
  /\ UNCHANGED <<input, result, fetched, received, storeVars>>

\* after: the locals when the loop body has run
RepoScanFetchSettled(outcome) ==
  /\ pc = "fetching"
  /\ input.type = "process-repo-scans"
  /\ fetched' = Append(fetched, [path |-> selectedSourcesOf(input)[locals.index].path,
                                 outcome |-> outcome])
  /\ repoCache' = IF outcome = "ok"
                  THEN Append(repoCache,
                              buildRepoCache(ScanFile(selectedSourcesOf(input)[locals.index].path)))
                  ELSE repoCache
  /\ \E after \in {RepoScanSettled(input, locals, outcome)} :
       /\ posted' = posted \o RepoScansResume(input, after)
       /\ IF after.index < Len(selectedSourcesOf(input))
          THEN locals' = [after EXCEPT !.index = @ + 1] /\ pc' = "fetching"
          ELSE locals' = after /\ pc' = "done"
  /\ UNCHANGED <<input, result, received, storeVars>>

OnProcessManifest ==
  /\ pc = "idle"
  /\ input.type = "process-manifest"
  /\ repoCache' = <<>>
  /\ posted' = posted \o ManifestStart(input)
  /\ IF input.format \notin AdapterFormats
     THEN pc' = "done" /\ UNCHANGED locals
     ELSE /\ locals' = LoopStart
          /\ pc' = IF Len(input.snapshots) > 0 THEN "fetching" ELSE "done"
  /\ UNCHANGED <<input, result, fetched, received, storeVars>>

ManifestFetchSettled(outcome) ==
  /\ pc = "fetching"
  /\ input.type = "process-manifest"
  /\ fetched' = Append(fetched, [path |-> input.snapshots[locals.index].path,
                                 outcome |-> outcome])
  /\ posted' = posted \o ManifestResume(input, locals, outcome)
  /\ IF outcome = "ok"
     THEN \E after \in {ManifestSettled(input, locals, outcome)} :
            IF locals.index < Len(input.snapshots)
            THEN locals' = [after EXCEPT !.index = @ + 1] /\ pc' = "fetching"
            ELSE locals' = after /\ pc' = "done"
     ELSE locals' = locals /\ pc' = "done"
  /\ UNCHANGED <<input, result, repoCache, received, storeVars>>

OnComputeSaveIndex(index, guildFilterKeys) ==
  /\ pc # "idle"
  /\ received < MaxSaveIndexRequests
  /\ received' = received + 1
  /\ posted' = Append(posted,
       IF Len(repoCache) = 0
       THEN [type |-> "error", error |-> [text |-> "Save index cache missing.", detail |-> <<>>]]
       ELSE [type |-> "save-index-result",
             payload |-> computeSaveIndexResult(index, guildFilterKeys, repoCache)])
  /\ UNCHANGED <<pc, input, result, repoCache, locals, fetched, storeVars>>

WorkerNext ==
  \/ OnProcessRepoScans
  \/ OnProcessManifest
  \/ \E outcome \in FetchOutcomes : RepoScanFetchSettled(outcome)
  \/ \E outcome \in FetchOutcomes : ManifestFetchSettled(outcome)
  \/ \E index \in 0..2, keys \in WkFilters : OnComputeSaveIndex(index, keys)

SpecWorker == WorkerInit /\ [][WorkerNext]_vars

(***************************************************************************)
(* Claims about the scan worker                                            *)
(***************************************************************************)
\* the messages that end the process request: its result or its error
TerminalMessages ==
  SelectSeq(posted, LAMBDA message :
              \/ message.type = "result"
              \/ message.type = "error" /\ message.error.text # "Save index cache missing.")

\* the messages posted for compute-save-index requests
SaveIndexMessages ==
  SelectSeq(posted, LAMBDA message :
              \/ message.type = "save-index-result"
              \/ message.type = "error" /\ message.error.text = "Save index cache missing.")

\* the settled fetches that returned a scan, and those that failed
LoadedFetches == SelectSeq(fetched, LAMBDA fetch : fetch.outcome = "ok")
FailedFetches == SelectSeq(fetched, LAMBDA fetch : fetch.outcome # "ok")

\* the source of a path
SourceAt(path) == CHOOSE source \in Range(scanSources) : source.path = path

\* the arguments of the computeDataset call: the scans that loaded, in the
\* order of their fetches, and at each index the manifest entry of the
\* source of that scan
AlignedWithLoaded(dataset, loaded) ==
  /\ dataset.snapshots = Array([i \in DOMAIN loaded |-> ScanFile(loaded[i].path)])
  /\ Len(dataset.manifestSnapshots) = Len(loaded)
  /\ \A i \in DOMAIN loaded :
       /\ dataset.manifestSnapshots[i].id = SourceAt(loaded[i].path).id
       /\ dataset.manifestSnapshots[i].label = SourceAt(loaded[i].path).label
       /\ dataset.manifestSnapshots[i].path = loaded[i].path
       /\ dataset.manifestSnapshots[i].date = DayOf(ScanFile(loaded[i].path).scannedAt)

\* the snapshot summaries of the WorkerResult: one per loaded scan, by
\* ascending scan date, each with the identifier of the source of its scan
SummariesOfLoaded(summaries, loaded) ==
  /\ Len(summaries) = Len(loaded)
  /\ \A i \in DOMAIN summaries :
       \E j \in DOMAIN loaded :
         /\ summaries[i].id = SourceAt(loaded[j].path).id
         /\ summaries[i].date = DayOf(ScanFile(loaded[j].path).scannedAt)
  /\ \A i \in DOMAIN summaries : \A k \in DOMAIN summaries :
       i < k => summaries[i].date < summaries[k].date

\* C21: a process-repo-scans request of a non-empty selection ends with
\* one message.  If a fetch returned a scan it is a result: computeDataset
\* was called with exactly the loaded scans and with the manifest entry of
\* the source of each at the same index, the WorkerResult lists these
\* scans, and errors holds one entry per failed source, in order.  If no
\* fetch returned a scan it is an error.
C21_ToleratesScanFailures ==
  (pc = "done" /\ input.type = "process-repo-scans" /\ Len(selectedSourcesOf(input)) > 0) =>
    /\ Len(TerminalMessages) = 1
    /\ Len(fetched) = Len(selectedSourcesOf(input))
    /\ IF Len(LoadedFetches) > 0
       THEN /\ TerminalMessages[1].type = "result"
            /\ AlignedWithLoaded(TerminalMessages[1].payload.dataset, LoadedFetches)
            /\ Column(TerminalMessages[1].errors, "path") = Column(FailedFetches, "path")
            /\ Column(TerminalMessages[1].errors, "reason") = Column(FailedFetches, "outcome")
            /\ Len(SaveIndexMessages) = 0 =>
                 SummariesOfLoaded(WorkerResultOf(TerminalMessages[1]).snapshots, LoadedFetches)
       ELSE TerminalMessages[1].type = "error"

\* the first scan of a selection of two fails, the second loads: a result
\* of one snapshot with one error
C21_Witness ==
  /\ pc = "done"
  /\ input.type = "process-repo-scans"
  /\ Len(fetched) = 2
  /\ fetched[1].outcome = "Request failed"
  /\ fetched[2].outcome = "ok"
  /\ Len(TerminalMessages) = 1
  /\ TerminalMessages[1].type = "result"
  /\ Len(TerminalMessages[1].payload.dataset.snapshots) = 1
  /\ TerminalMessages[1].payload.dataset.manifestSnapshots[1].id = scanSources[2].id
  /\ Len(TerminalMessages[1].errors) = 1

IsTerminal(message) ==
  \/ message.type = "result"
  \/ message.type = "error" /\ message.error.text # "Save index cache missing."
IsFetching(message) == message.type = "progress" /\ message.message[1] = "Fetching"
IsComputing(message) == message.type = "progress" /\ message.message[1] = "Computing metrics..."

\* the messages of the process request, in the order of their posting
ProcessMessages ==
  SelectSeq(posted, LAMBDA message : message.type = "progress" \/ IsTerminal(message))

\* the request has no terminal message while its handler runs and one when
\* it has returned, which is its last message; a Computing metrics...
\* message comes after every Fetching message and right before a result;
\* every compute-save-index request taken has one message
MessageOrder ==
  /\ Len(TerminalMessages) = IF pc = "done" THEN 1 ELSE 0
  /\ pc = "done" => IsTerminal(ProcessMessages[Len(ProcessMessages)])
  /\ \A i \in DOMAIN ProcessMessages : \A k \in DOMAIN ProcessMessages :
       (IsComputing(ProcessMessages[i]) /\ IsFetching(ProcessMessages[k])) => k < i
  /\ \A i \in DOMAIN ProcessMessages :
       IsComputing(ProcessMessages[i]) =>
         /\ i + 1 = Len(ProcessMessages)
         /\ ProcessMessages[i + 1].type = "result"
  /\ Len(SaveIndexMessages) = received

\* a request with a failed fetch ends with an error message
FailureYieldsError ==
  (pc = "done" /\ Len(FailedFetches) > 0) => TerminalMessages[1].type = "error"

\* a request with a failed fetch ends with an error message, or with a
\* result message that lists the failed fetch in errors when it is a
\* process-repo-scans request of which another scan loaded
FailureIsReported ==
  (pc = "done" /\ Len(FailedFetches) > 0) =>
    \/ TerminalMessages[1].type = "error"
    \/ /\ input.type = "process-repo-scans"
       /\ Len(LoadedFetches) > 0
       /\ TerminalMessages[1].type = "result"
       /\ Column(TerminalMessages[1].errors, "path") = Column(FailedFetches, "path")

\* C30 as stated: one terminal message per process request, after all its
\* progress messages; Computing metrics... after the last Fetching; a
\* failed fetch always yields an error message; one message per
\* compute-save-index request.
C30_FailureAlwaysYieldsError == MessageOrder /\ FailureYieldsError

\* a step of the handler of the process request: it takes the request, or
\* resumes after a fetch has settled
HandlerStep ==
  \/ OnProcessRepoScans
  \/ OnProcessManifest
  \/ \E outcome \in FetchOutcomes : RepoScanFetchSettled(outcome)
  \/ \E outcome \in FetchOutcomes : ManifestFetchSettled(outcome)

\* the handler of the process request ends: while it has not returned it
\* can take a step, whatever the fetch it waits for settles to, and it
\* fetches each source of the request once
HandlerEnds ==
  /\ pc # "done" => ENABLED HandlerStep
  /\ Len(fetched) <= Len(IF input.type = "process-manifest" THEN input.snapshots ELSE selectedSourcesOf(input))

\* C30, amended: as stated, except that a failed fetch of a
\* process-repo-scans request of which another scan loads is reported in
\* the errors list of the result message.  Every request ends: its handler
\* returns with its one terminal message posted.
C30_OneTerminalMessage == MessageOrder /\ FailureIsReported /\ HandlerEnds

\* a process-manifest request of two snapshots whose second fetch fails,
\* with a compute-save-index request taken in between: two Fetching
\* messages, then the error
C30_Witness ==
  /\ pc = "done"
  /\ input.type = "process-manifest"
  /\ Len(fetched) = 2
  /\ fetched[2].outcome = "Network error"
  /\ received = 1
  /\ Len(ProcessMessages) = 4
  /\ IsFetching(ProcessMessages[3])
  /\ ProcessMessages[4].type = "error"
  /\ ProcessMessages[4].errors[1].path = input.snapshots[2].path

\* the cache entries of the scans the process-repo-scans request has loaded
\* so far, from the log of its fetches: all its scans once the handler has
\* returned
CacheOfLoaded ==
  IF input.type = "process-repo-scans"
  THEN Array([i \in DOMAIN LoadedFetches |-> buildRepoCache(ScanFile(LoadedFetches[i].path))])
  ELSE <<>>

\* C28: every save-index-result posted is computed, for some guild filter,
\* from the cache entries of all the scans its process-repo-scans request
\* loads, whenever the compute-save-index message is taken; repoCache holds
\* scans of that one request only.
C28_SaveIndexOfCompleteCache ==
  /\ repoCache = CacheOfLoaded
  /\ pc = "done" =>
       \A i \in DOMAIN SaveIndexMessages :
         SaveIndexMessages[i].type = "save-index-result" =>
           \E keys \in WkFilters :
             SaveIndexMessages[i].payload =
               computeSaveIndexResult(SaveIndexMessages[i].payload.index, keys, CacheOfLoaded)

(***************************************************************************)
(* The data store (src/unnamed/part_009) and the Import route that calls   *)
(* it (src/src/routes/Import.tsx).  The store is a React function          *)
(* component: every handler is a closure of the render that created it and *)
(* reads the state of that render, while a set call replaces the current   *)
(* value.  store is the current state; a worker record keeps the render    *)
(* its onmessage handler closes over, and a timer the render of the        *)
(* loadSelectedDataset it calls.  While Import is mounted the active       *)
(* dataset is the repo dataset (Import.tsx:148-156), so a load is a        *)
(* process-repo-scans request.  workers lists the workers constructed,     *)
(* workerRef is the index of workerRef.current (0 for null).  userLoads,   *)
(* autoLoads and applied record the history: the loads the user has        *)
(* started, the loads the timers have started since the last of them, and  *)
(* the worker and workerRef.current of the last message applied.  The      *)
(* handler of a worker is one step here, with every outcome of its         *)
(* fetches: the store sees the messages of a worker in their order only,   *)
(* and the steps between the awaits are those of SpecWorker, as is the     *)
(* compute-save-index request of loadSaveIndex; the store keeps no         *)
(* saveIndexResult here.                                                   *)
(***************************************************************************)
MaxWorkers == 3

\* the state a handler closes over
Render(st) ==
  [selectedGuildKeys |-> st.selectedGuildKeys,
   selectedScanIds |-> st.selectedScanIds,
   memberlistPoolKeys |-> st.memberlistPoolKeys]

\* name|server of a player; the members of the scan files are named by
\* their key and carry no playerId
LegacyKey(player) == player.playerKey \o "|" \o player.server

\* keyMap holds the first player of a legacy key, conflicts the legacy keys
\* of players with different keys
migratePoolKeys(keys, source) ==
  Array([i \in DOMAIN keys |->
    LET owners == Column(SelectSeq(source, LAMBDA player : LegacyKey(player) = keys[i]),
                         "playerKey")
    IN IF Len(owners) = 0 THEN keys[i]
       ELSE IF \E k \in DOMAIN owners : owners[k] # owners[1] THEN keys[i]
       ELSE owners[1]])

\* Worker.terminate() of the worker in workerRef.current: the worker runs
\* no further task and the message queue of its port is emptied;
\* inFlight keeps whether it had its request or messages of it pending
terminate_keepsRunning(ws, ref) == ws

terminate(ws, ref) ==
  IF ref = 0 THEN ws
  ELSE [ws EXCEPT ![ref] = [alive |-> FALSE, closure |-> <<>>, request |-> <<>>,
                            step |-> "done", port |-> <<>>,
                            inFlight |-> @.step = "idle" \/ Len(@.port) > 0]]

\* startWorker followed by worker.postMessage(request): the workers after it
startWorker(ws, ref, closure, request) ==
  Append(terminate(ws, ref),
         [alive |-> TRUE, closure |-> closure, request |-> request, step |-> "idle",
          port |-> <<>>, inFlight |-> TRUE])

\* loadSelectedDataset of a render with the options given, on the store
\* state st left by the set calls before it in the same event
loadSelectedDataset(st, closure, guildKeys, scanIds) ==
  IF Len(scanIds) = 0
  THEN /\ store' = [st EXCEPT !.status = "error",
                              !.error = <<[text |-> "Select at least one scan source.",
                                           detail |-> <<>>]>>,
                              !.scanLoadErrors = <<>>,
                              !.result = <<>>]
       /\ UNCHANGED <<workers, workerRef>>
  ELSE /\ store' = [st EXCEPT !.status = "loading",
                              !.statusMessage = <<"Starting worker...">>,
                              !.error = <<>>,
                              !.scanLoadErrors = <<>>]
       /\ workers' = startWorker(workers, workerRef, closure,
                                 RepoScansRequest(scanIds, guildKeys))
       /\ workerRef' = Len(workers) + 1

\* worker.onmessage of a result message
OnResult(closure, message) ==
  LET payload == message.payload
      rosterKeys == Range(Column(payload.guildRoster, "guildKey"))
      filteredGuildKeys == SelectSeq(closure.selectedGuildKeys, LAMBDA key : key \in rosterKeys)
      playerKeySet == Range(Column(payload.latestPlayers, "playerKey"))
      migratedPool == migratePoolKeys(closure.memberlistPoolKeys, payload.latestPlayers)
      validPool == SelectSeq(migratedPool, LAMBDA key : key \in playerKeySet)
      applyDefaults == Len(filteredGuildKeys) = 0 /\ Len(payload.defaultGuildKeys) > 0
  IN /\ store' = [store EXCEPT
                    !.scanLoadErrors = message.errors,
                    !.result = <<payload>>,
                    !.status = IF applyDefaults THEN "loading" ELSE "ready",
                    !.statusMessage = IF applyDefaults
                                      THEN <<"Applying default guild selection...">>
                                      ELSE <<"Ready">>,
                    !.selectedGuildKeys =
                       IF applyDefaults THEN payload.defaultGuildKeys
                       ELSE IF /\ rosterKeys # {}
                               /\ Len(filteredGuildKeys) # Len(closure.selectedGuildKeys)
                       THEN filteredGuildKeys
                       ELSE @,
                    !.memberlistPoolKeys =
                       IF validPool # closure.memberlistPoolKeys THEN validPool ELSE @]
     /\ timers' = IF applyDefaults
                  THEN Append(timers, [closure |-> closure,
                                       guildKeys |-> payload.defaultGuildKeys])
                  ELSE timers

\* worker.onmessage of a progress or an error message
OnProgress(message) ==
  /\ store' = [store EXCEPT !.statusMessage = message.message]
  /\ UNCHANGED timers

OnError(message) ==
  /\ store' = [store EXCEPT !.error = <<message.error>>,
                            !.scanLoadErrors = message.errors,
                            !.status = "error",
                            !.statusMessage = <<"Error">>]
  /\ UNCHANGED timers

(***************************************************************************)
(* Specification of the store with its workers                             *)
(***************************************************************************)
\* the selections of the user: the scans checked, the guilds checked (of
\* the roster on screen, or the stored selection while there is none)
ScanDrafts == {Column(scanSources, "id"), <<scanSources[1].id>>}
GuildDrafts(st) ==
  IF st.result = <<>> THEN {st.selectedGuildKeys} \ {<<>>}
  ELSE {<<"g1">>}

\* the selections in localStorage when the store is mounted: none, a guild
\* and a pool of an earlier visit, a guild that is in no scan any more
Stored ==
  {[selectedGuildKeys |-> <<>>, memberlistPoolKeys |-> <<>>],
   [selectedGuildKeys |-> <<"g1">>, memberlistPoolKeys |-> <<"a|s1", "zz">>],
   [selectedGuildKeys |-> <<"gX">>, memberlistPoolKeys |-> <<>>]}

StoreInit ==
  /\ \E stored \in Stored :
       store = [status |-> "idle", statusMessage |-> <<>>, error |-> <<>>,
                scanLoadErrors |-> <<>>, result |-> <<>>,
                selectedScanIds |-> Column(scanSources, "id"),
                selectedGuildKeys |-> stored.selectedGuildKeys,
                memberlistPoolKeys |-> stored.memberlistPoolKeys]
  /\ workers = <<>>
  /\ workerRef = 0
  /\ timers = <<>>
  /\ userLoads = 0
  /\ autoLoads = 0
  /\ applied = <<0, 0>>
  /\ pc = "store" /\ input = <<>> /\ result = <<>>
  /\ NoWorker

\* Import.tsx:193-196
handleApplyScans(draft) ==
  /\ Len(workers) < MaxWorkers
  /\ loadSelectedDataset([store EXCEPT !.selectedScanIds = draft], Render(store),
                         store.selectedGuildKeys, draft)
  /\ userLoads' = userLoads + 1
  /\ autoLoads' = 0
  /\ UNCHANGED <<timers, applied, pc, input, result, workerVars>>

\* Import.tsx:198-201
handleApplyGuilds(draft) ==
  /\ Len(workers) < MaxWorkers
  /\ loadSelectedDataset([store EXCEPT !.selectedGuildKeys = draft], Render(store),
                         draft, store.selectedScanIds)
  /\ userLoads' = userLoads + 1
  /\ autoLoads' = 0
  /\ UNCHANGED <<timers, applied, pc, input, result, workerVars>>

\* the callback of setTimeout(() => loadSelectedDataset({ guildKeys: defaults }), 0)
TimerFires ==
  /\ Len(timers) > 0
  /\ Len(workers) < MaxWorkers
  /\ loadSelectedDataset(store, timers[1].closure, timers[1].guildKeys,
                         timers[1].closure.selectedScanIds)
  /\ timers' = Tail(timers)
  /\ autoLoads' = autoLoads + 1
  /\ UNCHANGED <<userLoads, applied, pc, input, result, workerVars>>

\* the message event of the port of worker w
OnMessage(w) ==
  /\ workers[w].alive
  /\ Len(workers[w].port) > 0
  /\ applied' = <<w, workerRef>>
  /\ workers' = [workers EXCEPT ![w].port = Tail(@)]
  /\ \E message \in {Head(workers[w].port)} :
       IF message.type = "progress" THEN OnProgress(message)
       ELSE IF message.type = "result" THEN OnResult(workers[w].closure, message)
       ELSE OnError(message)
  /\ UNCHANGED <<workerRef, userLoads, autoLoads, pc, input, result, workerVars>>

\* the messages the handler of process-repo-scans posts from the fetch of
\* source st.index on, the fetches settling to the outcomes given
RECURSIVE RepoScansRun(_, _, _)
RepoScansRun(request, st, outcomes) ==
  LET after == RepoScanSettled(request, st, outcomes[st.index])
  IN RepoScansResume(request, after)
       \o (IF after.index < Len(selectedSourcesOf(request))
           THEN RepoScansRun(request, [after EXCEPT !.index = @ + 1], outcomes)
           ELSE <<>>)

\* worker w handles its request
WorkerRuns(w, outcomes) ==
  /\ workers[w].alive
  /\ workers[w].step = "idle"
  /\ workers' = [workers EXCEPT
       ![w].port = @ \o RepoScansStart(workers[w].request)
                     \o (IF Len(selectedSourcesOf(workers[w].request)) = 0 THEN <<>>
                         ELSE RepoScansRun(workers[w].request, LoopStart, outcomes)),
       ![w].step = "done"]
  /\ UNCHANGED <<store, workerRef, timers, userLoads, autoLoads, applied,
                 pc, input, result, workerVars>>

StoreNext ==
  \/ \E draft \in ScanDrafts : handleApplyScans(draft)
  \/ \E draft \in GuildDrafts(store) : handleApplyGuilds(draft)
  \/ TimerFires
  \/ \E w \in DOMAIN workers : OnMessage(w)
  \/ \E w \in DOMAIN workers, outcomes \in [1..MaxScans -> {"ok", "Network error"}] :
       WorkerRuns(w, outcomes)

SpecStore == StoreInit /\ [][StoreNext]_vars

(***************************************************************************)
(* Claims on the store                                                     *)
(***************************************************************************)
LiveWorkers == {w \in DOMAIN workers : workers[w].alive}

\* C22: a load discards the load before it.  The only worker that can
\* still run or deliver is the one in workerRef.current, the last one
\* constructed; a worker that has been replaced has an empty port; and
\* every message applied to the store came from the worker that was in
\* workerRef.current when it was applied.
C22_SupersededLoadIsDiscarded ==
  /\ LiveWorkers \subseteq {workerRef}
  /\ workerRef = Len(workers)
  /\ \A w \in DOMAIN workers : w # workerRef => workers[w].port = <<>>
  /\ applied[1] = applied[2]

\* the first load was replaced while messages of its worker had not been
\* applied, and the second load has delivered its result
C22_Witness ==
  /\ Len(workers) = 2
  /\ ~workers[1].alive
  /\ workers[1].inFlight
  /\ userLoads = 2
  /\ applied = <<2, 2>>
  /\ workers[2].step = "done"
  /\ workers[2].port = <<>>
  /\ store.status = "ready"

\* C29: after a load of the user the store starts at most one automatic
\* load before the next load of the user.
C29_OneAutomaticLoad == autoLoads <= 1
(***************************************************************************)
(* Specification of the percentile engine alone: a Map of up to MaxPctN    *)
(* keys with values 0..MaxPctValue, in any insertion order.                *)
(***************************************************************************)
PctKeys == [i \in 1..MaxPctN |-> i]

PctInputs ==
  UNION {[1..n -> 0..MaxPctValue] : n \in 0..MaxPctN}

PctEntries(vs) == [i \in 1..Len(vs) |-> [key |-> PctKeys[i], value |-> QInt(vs[i])]]

PctInit ==
  /\ pc = "start"
  /\ input \in PctInputs
  /\ result = <<>>
  /\ NoWorker /\ NoStore

PctCompute ==
  /\ pc = "start"
  /\ pc' = "done"
  /\ result' = computePercentiles(PctEntries(input))
  /\ UNCHANGED <<input, workerVars, storeVars>>

PctNext == PctCompute

SpecPct == PctInit /\ [][PctNext]_vars

(***************************************************************************)
(* C6  computePercentiles is the tie-aware average rank: a key whose value *)
(* has i strictly smaller entries and j - i equal entries (itself          *)
(* included), i.e. whose run of equal values is [i, j) of the ascending    *)
(* order, gets ((i + j - 1)/2)/(n - 1); a single entry gets 1.             *)
(***************************************************************************)
PctBelow(vs, k) == Cardinality({x \in DOMAIN vs : vs[x] < vs[k]})
PctEqual(vs, k) == Cardinality({x \in DOMAIN vs : vs[x] = vs[k]})

C6_AverageRankPercentile ==
  pc = "done" =>
    /\ DOMAIN result = {PctKeys[k] : k \in DOMAIN input}
    /\ \A k \in DOMAIN input :
         LET n == Len(input)
             i == PctBelow(input, k)
             j == i + PctEqual(input, k)
         IN IF n = 1 THEN result[PctKeys[k]] = QOne
            ELSE /\ result[PctKeys[k]].n * (2 * (n - 1)) =
                      (i + j - 1) * result[PctKeys[k]].d
                 /\ (PctEqual(input, k) = 1 => result[PctKeys[k]] = Q(i, n - 1))

\* a run of two equal values below a distinct third one has been ranked
C6_Witness ==
  /\ pc = "done"
  /\ Len(input) = 3
  /\ input[1] = input[2]
  /\ input[3] > input[1]
  /\ result[PctKeys[1]] = Q(1, 4)
  /\ result[PctKeys[2]] = Q(1, 4)
  /\ result[PctKeys[3]] = QOne

(***************************************************************************)
(* Specification of the window resolver alone.  The date list is sorted    *)
(* ascending, as computeDataset and the score timeline pass it: months     *)
(* 1..K with one date each, except for up to two months that hold no date  *)
(* or two dates; the window is one of WINDOW_KEYS.                         *)
(***************************************************************************)
WinOccupancies ==
  {[m \in 1..k |-> IF m = a THEN va ELSE IF m = b THEN vb ELSE 1] :
     <<k, a, b, va, vb>> \in
       {t \in (1..MaxMonths) \X (0..MaxMonths) \X (0..MaxMonths) \X {0, 2} \X {0, 2} :
          t[2] <= t[1] /\ t[3] <= t[1]}}

RECURSIVE WinDates(_, _)
WinDates(occ, m) ==
  IF m > Len(occ) THEN <<>>
  ELSE [i \in 1..occ[m] |-> m * TicksPerMonth + (i - 1) * TicksPerDay]
         \o WinDates(occ, m + 1)

WinInit ==
  /\ pc = "start"
  /\ input \in {[dates |-> WinDates(occ, 1), months |-> w] :
                  occ \in WinOccupancies, w \in Range(WINDOW_KEYS)}
  /\ result = <<>>
  /\ NoWorker /\ NoStore

WinResolve ==
  /\ pc = "start"
  /\ pc' = "done"
  /\ result' = resolveWindowMeta(input.dates, input.months)
  /\ UNCHANGED <<input, workerVars, storeVars>>

WinNext == WinResolve

SpecWin == WinInit /\ [][WinNext]_vars

(***************************************************************************)
(* C7  resolveWindowMeta on a non-empty date list and a window of N months:*)
(* the end bucket is the second-to-last populated month (the only one if   *)
(* there is one), the start bucket lies N-1 populated months before it (or *)
(* is the first), startDate is the first date of the start bucket, endDate *)
(* the last date of the end bucket if it holds >= 2 dates, else the first  *)
(* date of the next bucket, else the end bucket's only date, and           *)
(* possibleIntervals is the number of dates in [startDate, endDate] - 1.   *)
(***************************************************************************)
WinMonthSet(dates) == {getMonthKey(dates[i]) : i \in DOMAIN dates}
\* the populated month with exactly k populated months before it
WinMonthAt(dates, k) ==
  CHOOSE m \in WinMonthSet(dates) :
    Cardinality({x \in WinMonthSet(dates) : x < m}) = k
WinDatesIn(dates, m) == {dates[i] : i \in {j \in DOMAIN dates : getMonthKey(dates[j]) = m}}
WinCountIn(dates, m) == Cardinality({j \in DOMAIN dates : getMonthKey(dates[j]) = m})
SetMin(S) == CHOOSE x \in S : \A y \in S : x <= y
SetMax(S) == CHOOSE x \in S : \A y \in S : x >= y

C7_WindowMeta ==
  (pc = "done" /\ input.dates # <<>>) =>
    LET dates == input.dates
        nMonths == Cardinality(WinMonthSet(dates))
        endIndex == IF nMonths > 1 THEN nMonths - 2 ELSE 0
        startIndex == IF endIndex - (input.months - 1) > 0
                      THEN endIndex - (input.months - 1) ELSE 0
        endMonth == WinMonthAt(dates, endIndex)
        startMonth == WinMonthAt(dates, startIndex)
        startDate == SetMin(WinDatesIn(dates, startMonth))
        endDate == IF WinCountIn(dates, endMonth) >= 2
                   THEN SetMax(WinDatesIn(dates, endMonth))
                   ELSE IF endIndex + 1 < nMonths
                   THEN SetMin(WinDatesIn(dates, WinMonthAt(dates, endIndex + 1)))
                   ELSE SetMax(WinDatesIn(dates, endMonth))
    IN /\ result.startDate = startDate
       /\ result.endDate = endDate
       /\ result.possibleIntervals =
            Cardinality({i \in DOMAIN dates :
                           startDate <= dates[i] /\ dates[i] <= endDate}) - 1

\* a 3-month window over at least five populated months whose end bucket
\* holds one date, so that the end date is taken from the next bucket
C7_Witness ==
  /\ pc = "done"
  /\ input.months = 3
  /\ Cardinality(WinMonthSet(input.dates)) >= 5
  /\ getMonthKey(result.endDate) = getMonthKey(input.dates[Len(input.dates)])
  /\ getMonthKey(result.startDate) > getMonthKey(input.dates[1])
  /\ result.possibleIntervals >= 3

(***************************************************************************)
(* Specification of the experience reconstruction alone: up to             *)
(* MaxExpPoints points with any level, exp and expNext of the sets below   *)
(* (levels on both sides of EXP_LEVEL_THRESHOLD, exp in units of 10^6).    *)
(***************************************************************************)
ExpLevels == {390, 392, 393, 395}
ExpValues == {-300, 600, 1700}
ExpNextValues == {0, 1000}

ExpPoints ==
  [level : ExpLevels, exp : ExpValues, expNext : ExpNextValues, expTotal : {0}]

ExpInit ==
  /\ pc = "start"
  /\ input \in UNION {[1..n -> ExpPoints] : n \in 1..MaxExpPoints}
  /\ result = <<>>
  /\ NoWorker /\ NoStore

ExpApply ==
  /\ pc = "start"
  /\ pc' = "done"
  /\ result' = applyExpTotals(input)
  /\ UNCHANGED <<input, workerVars, storeVars>>

ExpNext == ExpApply

SpecExp == ExpInit /\ [][ExpNext]_vars

(***************************************************************************)
(* C10  The reconstructed expTotal never decreases along the points,       *)
(* whatever the levels, exp counters and expNext values are.               *)
(***************************************************************************)
C10_ExpTotalMonotone ==
  pc = "done" =>
    /\ Len(result) = Len(input)
    /\ \A i \in 1..(Len(result) - 1) : result[i].expTotal <= result[i + 1].expTotal

\* a jump over the level-393 boundary of several levels, then an exp
\* counter reset with a level decrease
C10_Witness ==
  /\ pc = "done"
  /\ Len(input) = 3
  /\ input[1].level = 390 /\ input[2].level = 395 /\ input[3].level = 393
  /\ input[3].exp < input[2].exp
  /\ result[1].expTotal < result[2].expTotal
  /\ result[3].expTotal = result[2].expTotal

=============================================================================
